---- MODULE Spec2Model ----
(***************************************************************************)
(* Model of the comp-intel derivation engine (src/app/orchestrator.py):    *)
(* event selection, headline metrics, permit classification, cost model    *)
(* and timeline stages.                                                    *)
(*                                                                         *)
(* Conventions                                                             *)
(*  - Optional[T] is a sequence of length <= 1: NULL = <<>> is Python's    *)
(*    None, <<v>> is the value v.                                          *)
(*  - A calendar date is its day ordinal (datetime.toordinal up to a       *)
(*    shift): ISO 'YYYY-MM-DD' strings order exactly as their ordinals,    *)
(*    and (d1 - d0).days is the difference of the ordinals.                *)
(*  - Money is in whole currency units, areas in whole square feet.        *)
(***************************************************************************)
EXTENDS Integers, Sequences, FiniteSets, TLC

VARIABLES
    pc,                     \* position of the run being modelled
    escaped,                \* the exception that left run_multiple, if any
    results,                \* the list run_multiple builds
    url_list,               \* the URLs handed to run_multiple, each with what its run meets
    last_save_ok,           \* whether the last _save_search_log wrote the file
    committed,              \* the log as the last completed append-and-persist left it
    threads,                \* the request threads: operation, position, locals and returned values
    disk,                   \* the search log file: its content and whether it is intact
    log_lock,               \* holder of _search_log_lock, or free
    calls,                  \* the collaborators the run has called, in order
    report,                 \* the combined report run_full_comp_pipeline returns
    collaborators,          \* what the run's collaborators do: listing fetch, permit fetch, license lookup, narrative
    api,                    \* what the narrative request meets: key, outcome and reply
    strategy_notes,         \* summarize_comp's result
    repeat_players,         \* get_repeat_players' result
    search_log,             \* the in-memory search log (_search_log)
    team_network,           \* _extract_team_network's result
    deal_fitness,           \* _calculate_deal_fitness_score's result
    redfin,                 \* listing record (get_redfin_data's result)
    earliest_permit_date,   \* Optional date handed to the Event Selector
    purchase_event,         \* Optional TimelineEvent
    exit_event,             \* Optional TimelineEvent
    permits,                \* permit list (ladbs_data["permits"])
    permit_categories,      \* _categorize_permits' result
    metrics,                \* _build_headline_metrics' result
    construction_summary,   \* _build_construction_summary's result
    cost_model,             \* _build_cost_model's result
    log_entry,              \* flattened summary entry built for the search log
    permit_timeline,        \* milestone dates (_parse_permit_timeline's result)
    project_durations,      \* _calculate_project_durations' result
    timeline_summary        \* _build_timeline_summary's result

vars == <<pc, redfin, earliest_permit_date, purchase_event, exit_event, permits,
          permit_categories, metrics, construction_summary, cost_model, log_entry,
          permit_timeline, project_durations, timeline_summary, deal_fitness, team_network, search_log, repeat_players, strategy_notes, api, collaborators, report, calls, log_lock, disk, threads, committed, last_save_ok, url_list, results, escaped>>

----------------------------------------------------------------------------
(* Bounds of the model *)

MaxEvents == 3
MaxDay == 2

(* Program constants *)

MinPlausiblePrice == 100000

----------------------------------------------------------------------------
(* Optional values and Python truthiness *)

NULL == <<>>

Some(v) == <<v>>

Get(x) == x[1]

\* bool(x) for an Optional number: None and 0 are falsy
Truthy(x) == x # NULL /\ Get(x) # 0

\* `a or b` on Optional numbers
OrElse(a, b) == IF Truthy(a) THEN a ELSE b

Last(s) == s[Len(s)]

Front(s) == SubSeq(s, 1, Len(s) - 1)

----------------------------------------------------------------------------
(* Timeline events *)

EventKinds == {"listed", "active", "pending", "price_changed", "sold"}

ListingKinds == {"listed", "active", "pending"}

Days == 0 .. MaxDay

MkEvent(d, k, p) == [date |-> d, event |-> k, price |-> p]

DateKey_Descending(e) == IF e.date = NULL THEN 1 ELSE 0 - Get(e.date)

\* key=lambda e: e.get("date") or "": a missing date sorts before every date
DateKey(e) == IF e.date = NULL THEN -1 ELSE Get(e.date)

\* one step of a stable sort: e goes after every element whose key is <= its key
RECURSIVE InsertByDate(_, _)
InsertByDate(e, s) ==
    IF s = <<>> THEN <<e>>
    ELSE IF DateKey(Last(s)) <= DateKey(e) THEN Append(s, e)
    ELSE Append(InsertByDate(e, Front(s)), Last(s))

\* sorted(events, key=...) : Python's sort is stable
RECURSIVE SortedByDate(_)
SortedByDate(s) ==
    IF s = <<>> THEN <<>>
    ELSE InsertByDate(Last(s), SortedByDate(Front(s)))

IsSold(e) == e.event = "sold"

IsListing(e) == e.event \in ListingKinds

IsValidPurchase_Always(candidate, epd) == TRUE

IsValidPurchase_StrictBefore(candidate, epd) ==
    ~(epd # NULL /\ candidate.date # NULL /\ Get(candidate.date) >= Get(epd))

\* lines 229-240: the candidate is rejected only when it is dated after the permits
IsValidPurchase(candidate, epd) ==
    ~(epd # NULL /\ candidate.date # NULL /\ Get(candidate.date) > Get(epd))

\* line 226: sold_events[-2]
PurchaseCandidate(sold_events) == sold_events[Len(sold_events) - 1]

ExitOf_AnyLatest(tl) ==
    LET relevant == SelectSeq(SortedByDate(tl), LAMBDA e : IsSold(e) \/ IsListing(e))
    IN  IF relevant = <<>> THEN NULL ELSE Some(Last(relevant))

\* lines 216-221 and 244-248: the exit event
ExitOf(tl) ==
    LET sorted_tl      == SortedByDate(tl)
        sold_events    == SortedByDate(SelectSeq(sorted_tl, IsSold))
        listing_events == SortedByDate(SelectSeq(sorted_tl, IsListing))
    IN  IF sold_events # <<>> THEN Some(Last(sold_events))
        ELSE IF listing_events # <<>> THEN Some(Last(listing_events))
        ELSE NULL

\* lines 223-243: the purchase event
PurchaseOf(tl, epd) ==
    LET sold_events == SortedByDate(SelectSeq(SortedByDate(tl), IsSold))
    IN  IF Len(sold_events) > 1 /\ IsValidPurchase(PurchaseCandidate(sold_events), epd)
        THEN Some(PurchaseCandidate(sold_events))
        ELSE NULL

\* _pick_purchase_and_exit(timeline, earliest_permit_date) = <<purchase, exit>>
PickPurchaseAndExit(tl, epd) ==
    IF tl = <<>> THEN <<NULL, NULL>>
    ELSE <<PurchaseOf(tl, epd), ExitOf(tl)>>

----------------------------------------------------------------------------
(* Calendar: datetime.fromisoformat(...) and date subtraction *)

IsLeap_Never(y) == FALSE

IsLeap(y) == (y % 4 = 0 /\ y % 100 # 0) \/ y % 400 = 0

DaysInMonth(y, m) ==
    IF m = 2 THEN (IF IsLeap(y) THEN 29 ELSE 28)
    ELSE IF m \in {4, 6, 9, 11} THEN 30 ELSE 31

RECURSIVE DaysBeforeMonth(_, _)
DaysBeforeMonth(y, m) ==
    IF m = 1 THEN 0 ELSE DaysBeforeMonth(y, m - 1) + DaysInMonth(y, m - 1)

\* days before January 1st of year y (proleptic Gregorian calendar)
DaysBeforeYear(y) ==
    LET z == y - 1 IN z * 365 + (z \div 4) - (z \div 100) + (z \div 400)

\* date(y, m, d).toordinal()
Ordinal(y, m, d) == DaysBeforeYear(y) + DaysBeforeMonth(y, m) + d

----------------------------------------------------------------------------
(* Rounding.  Python's round() on the exact quotient: nearest, ties to even.  The *)
(* code rounds binary floats; the model rounds the exact rational.              *)

\* <<floor(n * 10^digits / d), remainder>> for d > 0, without leaving 32 bits
RECURSIVE FloorRem(_, _, _)
FloorRem(n, d, digits) ==
    IF digits = 0 THEN <<n \div d, n % d>>
    ELSE LET p == FloorRem(n, d, digits - 1)
         IN  <<p[1] * 10 + ((p[2] * 10) \div d), (p[2] * 10) % d>>

HalfEven(q, r, d) ==
    IF 2 * r < d THEN q
    ELSE IF 2 * r > d THEN q + 1
    ELSE IF q % 2 = 0 THEN q ELSE q + 1

\* round(n / d, digits), as an integer count of 10^-digits
RoundTo(n, d, digits) ==
    LET p == FloorRem(n, d, digits) IN HalfEven(p[1], p[2], d)

\* round(a * m / d) for a, m >= 0 and d > 0
RoundMulDiv(a, m, d) ==
    LET low == (a % d) * m
    IN  HalfEven((a \div d) * m + (low \div d), low % d, d)

----------------------------------------------------------------------------
(* COST_MODEL: the centralized cost constants *)

CostPerSfNewConstruction == 350
CostPerSfRemodel == 150
CostPerSfAddition == 300
CostPerSfGarage == 200
CostPerSfAdu == 300
LandscapeDemoAllowance == 30000
PoolAllowance == 70000
TypicalAduSf == 1000
\* soft_cost_pct 0.06, interest_rate_annual 0.10 and loan_points 0.01, in percent
SoftCostPct == 6
InterestRateAnnualPct == 10
LoanPointsPct == 1
HoldMonthsDefault == 15
\* hold_days / 30.44: days per month, in hundredths of a day
DaysPerMonthX100 == 3044

----------------------------------------------------------------------------
(* Metrics Engine: _build_headline_metrics *)

\* roi_pct and the $/SF and FAR figures carry two decimals (hundredths),
\* sf_pct_change one decimal (tenths)
BuildHeadlineMetrics(rf, epd) ==
    LET picked         == PickPurchaseAndExit(rf.timeline, epd)
        purchase       == picked[1]
        exit_ev        == picked[2]
        purchase_price == IF purchase # NULL THEN Get(purchase).price ELSE NULL
        purchase_date  == IF purchase # NULL THEN Get(purchase).date ELSE NULL
        exit_price     == IF exit_ev # NULL THEN Get(exit_ev).price ELSE NULL
        exit_date      == IF exit_ev # NULL THEN Get(exit_ev).date ELSE NULL
        spread         == IF purchase_price # NULL /\ exit_price # NULL
                          THEN Some(Get(exit_price) - Get(purchase_price)) ELSE NULL
        roi_pct        == IF spread # NULL /\ Get(purchase_price) > 0
                          THEN Some(RoundTo(100 * Get(spread), Get(purchase_price), 2))
                          ELSE NULL
        hold_days      == IF purchase_date # NULL /\ exit_date # NULL
                          THEN Some(Get(exit_date) - Get(purchase_date)) ELSE NULL
        spread_per_day == IF hold_days # NULL /\ Get(hold_days) > 0 /\ spread # NULL
                          THEN Some(RoundTo(Get(spread), Get(hold_days), 2)) ELSE NULL
        list_price     == rf.list_price
        original_sf    == rf.public_building_sf
        new_sf         == OrElse(rf.building_sf, rf.listing_building_sf)
        changed        == Truthy(original_sf) /\ Truthy(new_sf) /\ original_sf # new_sf
        sf_added       == IF changed THEN Some(Get(new_sf) - Get(original_sf)) ELSE NULL
        sf_pct_change  == IF changed /\ Get(original_sf) > 0
                          THEN Some(RoundTo(100 * Get(sf_added), Get(original_sf), 1))
                          ELSE NULL
        land_sf        == OrElse(rf.public_lot_sf, rf.lot_sf)
        has_land       == Truthy(land_sf) /\ Get(land_sf) > 0
        far_before     == IF has_land /\ Truthy(original_sf)
                          THEN Some(RoundTo(Get(original_sf), Get(land_sf), 2)) ELSE NULL
        far_after      == IF has_land /\ Truthy(new_sf)
                          THEN Some(RoundTo(Get(new_sf), Get(land_sf), 2)) ELSE NULL
        before_ok      == Truthy(original_sf) /\ Get(original_sf) > 0
        after_ok       == Truthy(new_sf) /\ Get(new_sf) > 0
        purchase_psf   == IF Truthy(purchase_price) /\ before_ok
                          THEN Some(RoundTo(Get(purchase_price), Get(original_sf), 2))
                          ELSE NULL
        exit_psf       == IF Truthy(exit_price) /\ after_ok
                          THEN Some(RoundTo(Get(exit_price), Get(new_sf), 2))
                          ELSE IF Truthy(exit_price) /\ before_ok
                          THEN Some(RoundTo(Get(exit_price), Get(original_sf), 2))
                          ELSE NULL
        list_psf       == IF Truthy(list_price) /\ after_ok
                          THEN Some(RoundTo(Get(list_price), Get(new_sf), 2))
                          ELSE IF Truthy(list_price) /\ before_ok
                          THEN Some(RoundTo(Get(list_price), Get(original_sf), 2))
                          ELSE NULL
    IN  [purchase_price |-> purchase_price, purchase_date |-> purchase_date,
         exit_price |-> exit_price, exit_date |-> exit_date,
         spread |-> spread, roi_pct |-> roi_pct, hold_days |-> hold_days,
         spread_per_day |-> spread_per_day, list_price |-> list_price,
         original_sf |-> original_sf, new_sf |-> new_sf, sf_added |-> sf_added,
         sf_pct_change |-> sf_pct_change, land_sf |-> land_sf,
         building_sf_before |-> original_sf, building_sf_after |-> new_sf,
         far_before |-> far_before, far_after |-> far_after,
         purchase_psf |-> purchase_psf, exit_psf |-> exit_psf, list_psf |-> list_psf]

----------------------------------------------------------------------------
(* Permit categories of an empty permit list (lines 581-603) *)

NoPermitCategories ==
    [building_count |-> 0, demo_count |-> 0, mep_count |-> 0, other_count |-> 0,
     supplement_count |-> 0, scope_level |-> "UNKNOWN",
     permit_complexity_score |-> "UNKNOWN", complexity_points |-> 0,
     has_fire_sprinklers |-> FALSE, removed_fire_sprinklers |-> FALSE,
     has_pool |-> FALSE, has_grading_or_hillside |-> FALSE, has_methane |-> FALSE,
     has_adu |-> FALSE, has_new_structure |-> FALSE, has_addition |-> FALSE,
     has_major_remodel |-> FALSE, started_before_final_approval |-> FALSE]

----------------------------------------------------------------------------
(* Permit Classifier: _categorize_permits. Texts are sequences of characters. *)

\* str.upper() on the letters
UpperOf ==
    [a |-> "A", b |-> "B", c |-> "C", d |-> "D", e |-> "E", f |-> "F", g |-> "G",
     h |-> "H", i |-> "I", j |-> "J", k |-> "K", l |-> "L", m |-> "M", n |-> "N",
     o |-> "O", p |-> "P", q |-> "Q", r |-> "R", s |-> "S", t |-> "T", u |-> "U",
     v |-> "V", w |-> "W", x |-> "X", y |-> "Y", z |-> "Z"]

Upper(text) ==
    [i \in 1 .. Len(text) |-> IF text[i] \in DOMAIN UpperOf THEN UpperOf[text[i]] ELSE text[i]]

\* `needle in hay` on strings
Contains(hay, needle) ==
    \E i \in 0 .. (Len(hay) - Len(needle)) : SubSeq(hay, i + 1, i + Len(needle)) = needle

\* combined = f"{permit_type} {work_desc} {sub_type}", each part upper-cased; a
\* missing key is the empty text
Combined(p) ==
    Upper(p.permit_type) \o <<" ">> \o Upper(p.work_description) \o <<" ">> \o Upper(p.sub_type)

\* line 640
\* "SPRINKLER", "NFPA", "FIRE SUPPRESSION"
SprinklerKeywords ==
    { <<"S", "P", "R", "I", "N", "K", "L", "E", "R">>,
      <<"N", "F", "P", "A">>,
      <<"F", "I", "R", "E", " ", "S", "U", "P", "P", "R", "E", "S", "S", "I", "O", "N">> }

\* line 643
\* "REMOV", "DELET", "DECOMMISSION"
RemovedKeywords ==
    { <<"R", "E", "M", "O", "V">>,
      <<"D", "E", "L", "E", "T">>,
      <<"D", "E", "C", "O", "M", "M", "I", "S", "S", "I", "O", "N">> }

\* line 647
\* "POOL", "SPA"
PoolKeywords ==
    { <<"P", "O", "O", "L">>,
      <<"S", "P", "A">> }

\* line 651
\* "GRADING", "HILLSIDE", "RETAINING WALL", "EXCAVATION", "SLOPE"
GradingKeywords ==
    { <<"G", "R", "A", "D", "I", "N", "G">>,
      <<"H", "I", "L", "L", "S", "I", "D", "E">>,
      <<"R", "E", "T", "A", "I", "N", "I", "N", "G", " ", "W", "A", "L", "L">>,
      <<"E", "X", "C", "A", "V", "A", "T", "I", "O", "N">>,
      <<"S", "L", "O", "P", "E">> }

\* line 655
\* "METHANE"
MethaneKeywords ==
    { <<"M", "E", "T", "H", "A", "N", "E">> }

\* line 659
\* "SUPPLEMENT", "REVISION", "REV ", "SUPP"
SupplementKeywords ==
    { <<"S", "U", "P", "P", "L", "E", "M", "E", "N", "T">>,
      <<"R", "E", "V", "I", "S", "I", "O", "N">>,
      <<"R", "E", "V", " ">>,
      <<"S", "U", "P", "P">> }

\* line 662
\* "DEMO", "DEMOLITION"
DemoKeywords ==
    { <<"D", "E", "M", "O">>,
      <<"D", "E", "M", "O", "L", "I", "T", "I", "O", "N">> }

\* line 665
\* "ELECTRICAL", "PLUMBING", "MECHANICAL", "HVAC"
MepKeywords ==
    { <<"E", "L", "E", "C", "T", "R", "I", "C", "A", "L">>,
      <<"P", "L", "U", "M", "B", "I", "N", "G">>,
      <<"M", "E", "C", "H", "A", "N", "I", "C", "A", "L">>,
      <<"H", "V", "A", "C">> }

\* line 668
\* "BLDG", "BUILDING", "ADDITION", "NEW", "CONSTRUCT", "ADU", "REMODEL"
BuildingKeywords ==
    { <<"B", "L", "D", "G">>,
      <<"B", "U", "I", "L", "D", "I", "N", "G">>,
      <<"A", "D", "D", "I", "T", "I", "O", "N">>,
      <<"N", "E", "W">>,
      <<"C", "O", "N", "S", "T", "R", "U", "C", "T">>,
      <<"A", "D", "U">>,
      <<"R", "E", "M", "O", "D", "E", "L">> }

\* line 672
\* "ADU", "ACCESSORY DWELLING"
AduKeywords ==
    { <<"A", "D", "U">>,
      <<"A", "C", "C", "E", "S", "S", "O", "R", "Y", " ", "D", "W", "E", "L", "L", "I", "N", "G">> }

\* line 674, first conjunct
\* "NEW"
NewKeywords ==
    { <<"N", "E", "W">> }

\* line 674, second conjunct
\* "CONSTRUCT", "STRUCTURE", "SFD", "SFR", "DWELLING"
StructureKeywords ==
    { <<"C", "O", "N", "S", "T", "R", "U", "C", "T">>,
      <<"S", "T", "R", "U", "C", "T", "U", "R", "E">>,
      <<"S", "F", "D">>,
      <<"S", "F", "R">>,
      <<"D", "W", "E", "L", "L", "I", "N", "G">> }

\* line 676
\* "ADDITION"
AdditionKeywords ==
    { <<"A", "D", "D", "I", "T", "I", "O", "N">> }

\* line 678
\* "MAJOR", "SUBSTANTIAL"
MajorKeywords ==
    { <<"M", "A", "J", "O", "R">>,
      <<"S", "U", "B", "S", "T", "A", "N", "T", "I", "A", "L">> }

\* line 678
\* "REMODEL"
RemodelKeywords ==
    { <<"R", "E", "M", "O", "D", "E", "L">> }

\* line 678
\* "MINOR"
MinorKeywords ==
    { <<"M", "I", "N", "O", "R">> }

AllKeywords ==
    UNION {SprinklerKeywords, RemovedKeywords, PoolKeywords, GradingKeywords,
           MethaneKeywords, SupplementKeywords, DemoKeywords, MepKeywords,
           BuildingKeywords, AduKeywords, NewKeywords, StructureKeywords,
           AdditionKeywords, MajorKeywords, RemodelKeywords, MinorKeywords}

\* a new accessory dwelling unit
\* permit_type "ADU", Work_Description "new accessory dwelling unit"
PermitAduNew ==
    [permit_type |-> <<"A", "D", "U">>,
     work_description |-> <<"n", "e", "w", " ", "a", "c", "c", "e", "s", "s", "o", "r", "y", " ", "d", "w", "e", "l", "l", "i", "n", "g", " ", "u", "n", "i", "t">>,
     sub_type |-> << >>]

\* an addition
\* permit_type "Bldg-Addition", Work_Description "ADDITION TO REAR OF HOUSE"
PermitAddition ==
    [permit_type |-> <<"B", "l", "d", "g", "-", "A", "d", "d", "i", "t", "i", "o", "n">>,
     work_description |-> <<"A", "D", "D", "I", "T", "I", "O", "N", " ", "T", "O", " ", "R", "E", "A", "R", " ", "O", "F", " ", "H", "O", "U", "S", "E">>,
     sub_type |-> << >>]

\* a remodel
\* permit_type "Bldg-Alter/Repair", Work_Description "Kitchen remodel"
PermitRemodel ==
    [permit_type |-> <<"B", "l", "d", "g", "-", "A", "l", "t", "e", "r", "/", "R", "e", "p", "a", "i", "r">>,
     work_description |-> <<"K", "i", "t", "c", "h", "e", "n", " ", "r", "e", "m", "o", "d", "e", "l">>,
     sub_type |-> << >>]

\* a building permit without scope indicator
\* permit_type "Bldg-Alter/Repair", Work_Description "REPLACE WINDOWS"
PermitWindows ==
    [permit_type |-> <<"B", "l", "d", "g", "-", "A", "l", "t", "e", "r", "/", "R", "e", "p", "a", "i", "r">>,
     work_description |-> <<"R", "E", "P", "L", "A", "C", "E", " ", "W", "I", "N", "D", "O", "W", "S">>,
     sub_type |-> << >>]

\* a garage conversion to an ADU
\* permit_type "Bldg-Alter/Repair", Work_Description "CONVERT GARAGE TO ADU"
PermitGarageAdu ==
    [permit_type |-> <<"B", "l", "d", "g", "-", "A", "l", "t", "e", "r", "/", "R", "e", "p", "a", "i", "r">>,
     work_description |-> <<"C", "O", "N", "V", "E", "R", "T", " ", "G", "A", "R", "A", "G", "E", " ", "T", "O", " ", "A", "D", "U">>,
     sub_type |-> << >>]

\* a new house
\* permit_type "Bldg-New", Work_Description "NEW SFD WITH ATTACHED GARAGE"
PermitNewHouse ==
    [permit_type |-> <<"B", "l", "d", "g", "-", "N", "e", "w">>,
     work_description |-> <<"N", "E", "W", " ", "S", "F", "D", " ", "W", "I", "T", "H", " ", "A", "T", "T", "A", "C", "H", "E", "D", " ", "G", "A", "R", "A", "G", "E">>,
     sub_type |-> << >>]

\* a supplement that also names a building type and an ADU
\* permit_type "Bldg-Alter/Repair", Work_Description "SUPPLEMENT TO PERMIT TO ADD ADU"
PermitSupplement ==
    [permit_type |-> <<"B", "l", "d", "g", "-", "A", "l", "t", "e", "r", "/", "R", "e", "p", "a", "i", "r">>,
     work_description |-> <<"S", "U", "P", "P", "L", "E", "M", "E", "N", "T", " ", "T", "O", " ", "P", "E", "R", "M", "I", "T", " ", "T", "O", " ", "A", "D", "D", " ", "A", "D", "U">>,
     sub_type |-> << >>]

\* a demolition
\* permit_type "Bldg-Demolition", Work_Description "DEMO EXISTING GARAGE"
PermitDemo ==
    [permit_type |-> <<"B", "l", "d", "g", "-", "D", "e", "m", "o", "l", "i", "t", "i", "o", "n">>,
     work_description |-> <<"D", "E", "M", "O", " ", "E", "X", "I", "S", "T", "I", "N", "G", " ", "G", "A", "R", "A", "G", "E">>,
     sub_type |-> << >>]

\* a mechanical permit for methane mitigation
\* permit_type "Mechanical", Work_Description "METHANE MITIGATION SYSTEM"
PermitMethane ==
    [permit_type |-> <<"M", "e", "c", "h", "a", "n", "i", "c", "a", "l">>,
     work_description |-> <<"M", "E", "T", "H", "A", "N", "E", " ", "M", "I", "T", "I", "G", "A", "T", "I", "O", "N", " ", "S", "Y", "S", "T", "E", "M">>,
     sub_type |-> << >>]

\* grading on a hillside
\* permit_type "Grading", Work_Description "HILLSIDE GRADING AND RETAINING WALL"
PermitGrading ==
    [permit_type |-> <<"G", "r", "a", "d", "i", "n", "g">>,
     work_description |-> <<"H", "I", "L", "L", "S", "I", "D", "E", " ", "G", "R", "A", "D", "I", "N", "G", " ", "A", "N", "D", " ", "R", "E", "T", "A", "I", "N", "I", "N", "G", " ", "W", "A", "L", "L">>,
     sub_type |-> << >>]

\* a pool
\* permit_type "Swimming-Pool/Spa", Work_Description "POOL AND SPA"
PermitPool ==
    [permit_type |-> <<"S", "w", "i", "m", "m", "i", "n", "g", "-", "P", "o", "o", "l", "/", "S", "p", "a">>,
     work_description |-> <<"P", "O", "O", "L", " ", "A", "N", "D", " ", "S", "P", "A">>,
     sub_type |-> << >>]

\* fire sprinklers
\* permit_type "Fire Sprinkler", Work_Description "NFPA 13D SYSTEM"
PermitSprinkler ==
    [permit_type |-> <<"F", "i", "r", "e", " ", "S", "p", "r", "i", "n", "k", "l", "e", "r">>,
     work_description |-> <<"N", "F", "P", "A", " ", "1", "3", "D", " ", "S", "Y", "S", "T", "E", "M">>,
     sub_type |-> << >>]

\* a plain plumbing permit
\* permit_type "Plumbing", Work_Description "WATER HEATER"
PermitPlumbing ==
    [permit_type |-> <<"P", "l", "u", "m", "b", "i", "n", "g">>,
     work_description |-> <<"W", "A", "T", "E", "R", " ", "H", "E", "A", "T", "E", "R">>,
     sub_type |-> << >>]

\* a permit no keyword matches
\* permit_type "Sign", Work_Description "WALL SIGN"
PermitSign ==
    [permit_type |-> <<"S", "i", "g", "n">>,
     work_description |-> <<"W", "A", "L", "L", " ", "S", "I", "G", "N">>,
     sub_type |-> << >>]

\* electrical work for an accessory dwelling unit
\* permit_type "Electrical", Work_Description "WIRING FOR NEW ADU"
PermitAduWiring ==
    [permit_type |-> <<"E", "l", "e", "c", "t", "r", "i", "c", "a", "l">>,
     work_description |-> <<"W", "I", "R", "I", "N", "G", " ", "F", "O", "R", " ", "N", "E", "W", " ", "A", "D", "U">>,
     sub_type |-> << >>]

\* demolition of an accessory dwelling unit
\* permit_type "Bldg-Demolition", Work_Description "DEMO DETACHED ADU"
PermitAduDemo ==
    [permit_type |-> <<"B", "l", "d", "g", "-", "D", "e", "m", "o", "l", "i", "t", "i", "o", "n">>,
     work_description |-> <<"D", "E", "M", "O", " ", "D", "E", "T", "A", "C", "H", "E", "D", " ", "A", "D", "U">>,
     sub_type |-> << >>]

\* the permits a list is drawn from
PermitVocabulary ==
    {PermitAduNew, PermitGarageAdu, PermitAddition, PermitRemodel, PermitWindows,
     PermitNewHouse, PermitSupplement, PermitDemo, PermitMethane, PermitGrading, PermitPool,
     PermitSprinkler}

\* permits a list may hold several times over: routine ones, and trade and
\* demolition permits that mention an accessory dwelling unit
FillerPermits == {PermitPlumbing, PermitSign, PermitAduWiring, PermitAduDemo}

KnownPermits == PermitVocabulary \cup FillerPermits

\* the keywords found in the combined text of each known permit
KeywordHits ==
    [p \in KnownPermits |-> {kw \in AllKeywords : Contains(Combined(p), kw)}]

\* the keywords kw with `kw in combined`, for the combined text of permit p
KeywordsIn(p) ==
    IF p \in KnownPermits THEN KeywordHits[p]
    ELSE {kw \in AllKeywords : Contains(Combined(p), kw)}

\* any(kw in combined for kw in kws), given the keywords found in combined
AnyIn(found, kws) == found \cap kws # {}

PermitCategory_BuildingFirst(found) ==
    IF AnyIn(found, BuildingKeywords) THEN "building"
    ELSE IF AnyIn(found, SupplementKeywords) THEN "supplement"
    ELSE IF AnyIn(found, DemoKeywords) THEN "demo"
    ELSE IF AnyIn(found, MepKeywords) THEN "mep"
    ELSE "other"

\* lines 659-682: the if/elif chain that picks the one counter a permit adds to
PermitCategory(found) ==
    IF AnyIn(found, SupplementKeywords) THEN "supplement"
    ELSE IF AnyIn(found, DemoKeywords) THEN "demo"
    ELSE IF AnyIn(found, MepKeywords) THEN "mep"
    ELSE IF AnyIn(found, BuildingKeywords) THEN "building"
    ELSE "other"

\* lines 605-621: counters and flags before the loop
LoopStart ==
    [building_count |-> 0, demo_count |-> 0, mep_count |-> 0, other_count |-> 0,
     supplement_count |-> 0,
     has_fire_sprinklers |-> FALSE, removed_fire_sprinklers |-> FALSE,
     has_pool |-> FALSE, has_grading_or_hillside |-> FALSE, has_methane |-> FALSE,
     has_adu |-> FALSE, has_new_structure |-> FALSE, has_addition |-> FALSE,
     has_major_remodel |-> FALSE]

Add(flag) == IF flag THEN 1 ELSE 0

\* lines 631-682: one pass of the loop body over permit p
LoopStep(acc, p) ==
    LET found     == KeywordsIn(p)
        sprinkler == AnyIn(found, SprinklerKeywords)
        category  == PermitCategory(found)
        building  == category = "building"
    IN  [building_count   |-> acc.building_count + Add(building),
         demo_count       |-> acc.demo_count + Add(category = "demo"),
         mep_count        |-> acc.mep_count + Add(category = "mep"),
         other_count      |-> acc.other_count + Add(category = "other"),
         supplement_count |-> acc.supplement_count + Add(category = "supplement"),
         has_fire_sprinklers     |-> acc.has_fire_sprinklers \/ sprinkler,
         removed_fire_sprinklers |-> \/ acc.removed_fire_sprinklers
                                     \/ sprinkler /\ AnyIn(found, RemovedKeywords),
         has_pool                |-> acc.has_pool \/ AnyIn(found, PoolKeywords),
         has_grading_or_hillside |-> \/ acc.has_grading_or_hillside
                                     \/ AnyIn(found, GradingKeywords),
         has_methane             |-> acc.has_methane \/ AnyIn(found, MethaneKeywords),
         has_adu           |-> acc.has_adu \/ (building /\ AnyIn(found, AduKeywords)),
         has_new_structure |-> \/ acc.has_new_structure
                               \/ /\ building
                                  /\ AnyIn(found, NewKeywords)
                                  /\ AnyIn(found, StructureKeywords),
         has_addition      |-> acc.has_addition \/ (building /\ AnyIn(found, AdditionKeywords)),
         has_major_remodel |-> \/ acc.has_major_remodel
                               \/ /\ building
                                  /\ \/ AnyIn(found, MajorKeywords)
                                     \/ /\ AnyIn(found, RemodelKeywords)
                                        /\ ~AnyIn(found, MinorKeywords)]

RECURSIVE CategorizeLoop(_, _)
\* `for p in permits:`
CategorizeLoop(ps, acc) ==
    IF ps = << >> THEN acc ELSE CategorizeLoop(Tail(ps), LoopStep(acc, Head(ps)))

ScopeLevel_AduIgnored(acc, total_permits) ==
    IF acc.has_new_structure \/ acc.building_count >= 3 THEN "HEAVY"
    ELSE IF \/ acc.has_addition
            \/ acc.has_major_remodel
            \/ acc.building_count >= 2
            \/ acc.mep_count >= 3 THEN "MEDIUM"
    ELSE "LIGHT"

\* lines 684-710
ScopeLevel(acc, total_permits) ==
    IF acc.has_new_structure \/ acc.has_adu \/ acc.building_count >= 3 THEN "HEAVY"
    ELSE IF \/ acc.has_addition
            \/ acc.has_major_remodel
            \/ acc.building_count >= 2
            \/ acc.mep_count >= 3 THEN "MEDIUM"
    ELSE IF total_permits <= 2 /\ acc.building_count = 0 THEN "LIGHT"
    ELSE "LIGHT"

ComplexityPoints_GradingAsOne(acc, total_permits) ==
    (IF total_permits >= 8 THEN 3
     ELSE IF total_permits >= 5 THEN 2
     ELSE IF total_permits >= 3 THEN 1 ELSE 0)
    + (IF acc.supplement_count >= 3 THEN 2
       ELSE IF acc.supplement_count >= 1 THEN 1 ELSE 0)
    + Add(acc.has_pool)
    + Add(acc.has_grading_or_hillside)
    + Add(acc.has_methane)
    + Add(acc.has_fire_sprinklers)

\* lines 713-733: the local complexity_score
ComplexityPoints(acc, total_permits) ==
    (IF total_permits >= 8 THEN 3
     ELSE IF total_permits >= 5 THEN 2
     ELSE IF total_permits >= 3 THEN 1 ELSE 0)
    + (IF acc.supplement_count >= 3 THEN 2
       ELSE IF acc.supplement_count >= 1 THEN 1 ELSE 0)
    + Add(acc.has_pool)
    + 2 * Add(acc.has_grading_or_hillside)
    + Add(acc.has_methane)
    + Add(acc.has_fire_sprinklers)

\* lines 735-740
ComplexityLabel(complexity_score) ==
    IF complexity_score >= 5 THEN "HIGH"
    ELSE IF complexity_score >= 2 THEN "MEDIUM"
    ELSE "LOW"

\* _categorize_permits(permits); complexity_points is the local complexity_score,
\* has_addition and has_major_remodel are the locals of the same names
CategorizePermits(ps) ==
    IF ps = << >> THEN NoPermitCategories
    ELSE LET acc    == CategorizeLoop(ps, LoopStart)
             total  == Len(ps)
             points == ComplexityPoints(acc, total)
         IN  [building_count |-> acc.building_count, demo_count |-> acc.demo_count,
              mep_count |-> acc.mep_count, other_count |-> acc.other_count,
              supplement_count |-> acc.supplement_count,
              scope_level |-> ScopeLevel(acc, total),
              permit_complexity_score |-> ComplexityLabel(points),
              complexity_points |-> points,
              has_fire_sprinklers |-> acc.has_fire_sprinklers,
              removed_fire_sprinklers |-> acc.removed_fire_sprinklers,
              has_pool |-> acc.has_pool,
              has_grading_or_hillside |-> acc.has_grading_or_hillside,
              has_methane |-> acc.has_methane,
              has_adu |-> acc.has_adu, has_new_structure |-> acc.has_new_structure,
              has_addition |-> acc.has_addition,
              has_major_remodel |-> acc.has_major_remodel,
              started_before_final_approval |-> FALSE]

----------------------------------------------------------------------------
(* Construction summary and Cost Model *)

\* `x or 0` on an Optional number
OrZero(x) == IF Truthy(x) THEN Get(x) ELSE 0

BuildConstructionSummary_NeverNew(m, cats) ==
    LET existing_sf == OrZero(m.building_sf_before)
        final_sf    == OrZero(OrElse(m.building_sf_after, m.building_sf_before))
        added_sf    == OrZero(m.sf_added)
    IN  [existing_sf |-> Some(existing_sf),
         added_sf |-> IF added_sf > 0 THEN Some(added_sf) ELSE NULL,
         final_sf |-> IF final_sf > 0 THEN Some(final_sf) ELSE NULL,
         lot_sf |-> m.land_sf,
         scope_level |-> cats.scope_level,
         is_new_construction |-> FALSE]

\* _build_construction_summary(redfin, metrics, permit_categories)
BuildConstructionSummary(m, cats) ==
    LET existing_sf == OrZero(m.building_sf_before)
        final_sf    == OrZero(OrElse(m.building_sf_after, m.building_sf_before))
        is_new      == existing_sf = 0 /\ final_sf > 0
        added_sf    == IF is_new THEN final_sf ELSE OrZero(m.sf_added)
    IN  [existing_sf |-> Some(existing_sf),
         added_sf |-> IF added_sf > 0 THEN Some(added_sf) ELSE NULL,
         final_sf |-> IF final_sf > 0 THEN Some(final_sf) ELSE NULL,
         lot_sf |-> m.land_sf,
         scope_level |-> cats.scope_level,
         is_new_construction |-> is_new]

Min_Larger(a, b) == IF a <= b THEN b ELSE a

Min(a, b) == IF a <= b THEN a ELSE b

ExitPriceForProfit_NoListPrice(m) == m.exit_price

\* line 1091: exit_price = metrics.get("exit_price") or metrics.get("list_price")
ExitPriceForProfit(m) == OrElse(m.exit_price, m.list_price)

TotalProjectCostOf_Ungated(purchase_price, other_costs) ==
    Some(OrZero(purchase_price) + other_costs)

\* lines 1188-1192: total_project_cost, given hard + soft + financing cost
TotalProjectCostOf(purchase_price, other_costs) ==
    IF Truthy(purchase_price) THEN Some(Get(purchase_price) + other_costs) ELSE NULL

\* lines 1189-1194: estimated_profit
ProfitOf(purchase_price, exit_price, other_costs) ==
    IF Truthy(purchase_price) /\ Truthy(exit_price)
    THEN Some(Get(exit_price) - Get(TotalProjectCostOf(purchase_price, other_costs)))
    ELSE NULL

\* _build_cost_model(metrics, construction_summary, permit_categories)
BuildCostModel(m, cs, cats) ==
    LET purchase_price == m.purchase_price
        exit_price     == ExitPriceForProfit(m)
        hold_days      == m.hold_days
        existing_sf    == OrZero(cs.existing_sf)
        added_sf       == OrZero(cs.added_sf)
        final_sf       == OrZero(cs.final_sf)
        is_new         == cs.is_new_construction
        has_adu        == cats.has_adu
        has_pool       == cats.has_pool
        split_adu      == ~is_new /\ added_sf > 0 /\ has_adu
        new_sf_full    == IF is_new THEN final_sf ELSE 0
        remodel_sf     == IF is_new THEN 0 ELSE existing_sf
        adu_sf         == IF split_adu THEN Min(added_sf, TypicalAduSf) ELSE 0
        addition_sf    == IF is_new \/ added_sf <= 0 THEN 0 ELSE added_sf - adu_sf
        cost_new       == new_sf_full * CostPerSfNewConstruction
        cost_remodel   == remodel_sf * CostPerSfRemodel
        cost_addition  == addition_sf * CostPerSfAddition
        cost_garage    == 0
        cost_adu       == adu_sf * CostPerSfAdu
        cost_landscape == LandscapeDemoAllowance
        cost_pool      == IF has_pool THEN PoolAllowance ELSE 0
        hard_total     == cost_new + cost_remodel + cost_addition + cost_garage
                          + cost_adu + cost_landscape + cost_pool
        soft_costs     == RoundMulDiv(hard_total, SoftCostPct, 100)
        loan_base      == IF Truthy(purchase_price) THEN Get(purchase_price) ELSE hard_total
        interest_cost  == IF loan_base = 0 THEN 0
                          ELSE IF Truthy(hold_days) /\ Get(hold_days) > 0
                          THEN RoundMulDiv(loan_base, Get(hold_days) * InterestRateAnnualPct,
                                           DaysPerMonthX100 * 12)
                          ELSE RoundMulDiv(loan_base, InterestRateAnnualPct * HoldMonthsDefault,
                                           100 * 12)
        points_cost    == IF loan_base = 0 THEN 0
                          ELSE RoundMulDiv(loan_base, LoanPointsPct, 100)
        financing_cost == interest_cost + points_cost
        other_costs    == hard_total + soft_costs + financing_cost
    IN  [remodel_sf |-> remodel_sf, cost_remodel |-> cost_remodel,
         addition_sf |-> addition_sf, cost_addition |-> cost_addition,
         new_sf_full |-> new_sf_full, cost_new_construction |-> cost_new,
         garage_sf |-> 0, cost_garage |-> cost_garage,
         adu_sf |-> adu_sf, cost_adu |-> cost_adu,
         cost_landscape |-> cost_landscape, has_pool |-> has_pool,
         cost_pool |-> cost_pool, hard_cost_total |-> hard_total,
         soft_costs |-> soft_costs, financing_cost |-> financing_cost,
         interest_cost |-> interest_cost, points_cost |-> points_cost,
         total_project_cost |-> TotalProjectCostOf(purchase_price, other_costs),
         estimated_profit |-> ProfitOf(purchase_price, exit_price, other_costs),
         purchase_unknown |-> purchase_price = NULL]

\* lines 1772-1794: the flattened summary entry for the search log
BuildLogEntry(m) ==
    [purchase_date |-> m.purchase_date,
     exit_date |-> m.exit_date,
     exit_date_is_current |-> m.exit_date = NULL /\ Truthy(m.list_price),
     hold_days |-> m.hold_days,
     purchase_price |-> m.purchase_price,
     exit_price |-> OrElse(m.exit_price, m.list_price),
     spread |-> m.spread, roi_pct |-> m.roi_pct,
     spread_per_day |-> m.spread_per_day, land_sf |-> m.land_sf,
     building_sf_before |-> m.building_sf_before,
     building_sf_after |-> m.building_sf_after,
     far_before |-> m.far_before, far_after |-> m.far_after]

----------------------------------------------------------------------------
(* Timeline Assembler: _calculate_project_durations and _build_timeline_summary *)

\* dict.get(key): None for a key the dict does not hold
DictGet(dict, key) == IF key \in DOMAIN dict THEN dict[key] ELSE NULL

NoDurations ==
    [days_to_submit |-> NULL, days_to_approve |-> NULL, days_approval_to_start |-> NULL,
     days_construction |-> NULL, total_project_days |-> NULL]

\* end - start in days when both dates are known, else the key stays unset
DaysBetween(start, end) ==
    IF start # NULL /\ end # NULL THEN Some(Get(end) - Get(start)) ELSE NULL

\* _calculate_project_durations(purchase_date, permit_timeline); a key that is not
\* set is held as NULL
CalculateProjectDurations(purchase_date, pt) ==
    IF purchase_date = NULL THEN NoDurations
    ELSE [days_to_submit         |-> DaysBetween(purchase_date, pt.plans_submitted_date),
          days_to_approve        |-> DaysBetween(pt.plans_submitted_date, pt.plans_approved_date),
          days_approval_to_start |-> DaysBetween(pt.plans_approved_date, pt.construction_start_date),
          days_construction      |-> DaysBetween(pt.construction_start_date,
                                                 pt.construction_completed_date),
          total_project_days     |-> DaysBetween(purchase_date, pt.construction_completed_date)]

ValidDuration_AnyKnown(days) == days # NULL

\* `if days is not None and days >= 0`
ValidDuration(days) == days # NULL /\ Get(days) >= 0

\* the stage appended when its two dates are known and its duration is valid
StageIf(known, name, days, start, end) ==
    IF known /\ ValidDuration(days)
    THEN << [name |-> name, days |-> Get(days), start_date |-> start, end_date |-> end] >>
    ELSE << >>

StagePurchaseToSubmit == "Purchase -> Plans Submitted"
StageSubmitToApproval == "Plans Submitted -> Approval"
StageApprovalToStart == "Plans Approved -> Construction Start"
StageConstruction == "Construction Duration"
StageCofoToSale == "CofO -> Sale"

\* _build_timeline_summary(metrics, permit_timeline, project_durations)
BuildTimelineSummary(m, pt, pd) ==
    LET purchase_date == m.purchase_date
        exit_date     == m.exit_date
        submitted     == pt.plans_submitted_date
        approved      == pt.plans_approved_date
        started       == pt.construction_start_date
        completed     == pt.construction_completed_date
        td            == DaysBetween(purchase_date, exit_date)
        cofo_to_sale  == DaysBetween(completed, exit_date)
    IN  [stages |->
             StageIf(purchase_date # NULL /\ submitted # NULL, StagePurchaseToSubmit,
                     DictGet(pd, "days_to_submit"), purchase_date, submitted)
             \o StageIf(submitted # NULL /\ approved # NULL, StageSubmitToApproval,
                        DictGet(pd, "days_to_approve"), submitted, approved)
             \o StageIf(approved # NULL /\ completed # NULL, StageApprovalToStart,
                        DictGet(pd, "days_to_complete"), approved, started)
             \o StageIf(started # NULL /\ completed # NULL, StageConstruction,
                        DictGet(pd, "days_construction"), started, completed)
             \o (IF cofo_to_sale # NULL /\ Get(cofo_to_sale) >= 0
                 THEN << [name |-> StageCofoToSale, days |-> Get(cofo_to_sale),
                          start_date |-> completed, end_date |-> exit_date] >>
                 ELSE << >>),
         total_days |-> IF td # NULL /\ Get(td) >= 0 THEN td ELSE NULL,
         purchase_date |-> purchase_date, exit_date |-> exit_date,
         plans_submitted_date |-> submitted, plans_approved_date |-> approved,
         construction_start_date |-> started, construction_completed_date |-> completed]

----------------------------------------------------------------------------
(* Deal Fitness: _calculate_deal_fitness_score.  roi_pct and spread_per_day are *)
(* held in hundredths, so 50 percent is 5000 and 3000 $/day is 300000.          *)

RoiScore_LossAsMinimal(roi_pct) ==
    IF roi_pct = NULL THEN 0
    ELSE IF Get(roi_pct) >= 5000 THEN 30
    ELSE IF Get(roi_pct) >= 3000 THEN 25
    ELSE IF Get(roi_pct) >= 2000 THEN 20
    ELSE IF Get(roi_pct) >= 1000 THEN 15
    ELSE 10

\* lines 1374-1396
RoiScore(roi_pct) ==
    IF roi_pct # NULL
    THEN IF Get(roi_pct) >= 5000 THEN 30
         ELSE IF Get(roi_pct) >= 3000 THEN 25
         ELSE IF Get(roi_pct) >= 2000 THEN 20
         ELSE IF Get(roi_pct) >= 1000 THEN 15
         ELSE IF Get(roi_pct) >= 0 THEN 10
         ELSE 0
    ELSE 0

\* lines 1401-1415
ComplexityScore(permit_complexity) ==
    IF permit_complexity = "LOW" THEN 25
    ELSE IF permit_complexity = "MEDIUM" THEN 15
    ELSE IF permit_complexity = "HIGH" THEN 5
    ELSE 10

\* lines 1420-1442
MotScore(spread_per_day) ==
    IF spread_per_day # NULL /\ Get(spread_per_day) > 0
    THEN IF Get(spread_per_day) >= 300000 THEN 25
         ELSE IF Get(spread_per_day) >= 200000 THEN 20
         ELSE IF Get(spread_per_day) >= 100000 THEN 15
         ELSE IF Get(spread_per_day) >= 50000 THEN 10
         ELSE 5
    ELSE 0

HoldScore_UnknownAsQuick(hold_days) ==
    IF hold_days = NULL \/ Get(hold_days) <= 180 THEN 20
    ELSE IF Get(hold_days) <= 365 THEN 15
    ELSE IF Get(hold_days) <= 548 THEN 10
    ELSE IF Get(hold_days) <= 730 THEN 5
    ELSE 0

\* lines 1447-1469
HoldScore(hold_days) ==
    IF hold_days # NULL /\ Get(hold_days) > 0
    THEN IF Get(hold_days) <= 180 THEN 20
         ELSE IF Get(hold_days) <= 365 THEN 15
         ELSE IF Get(hold_days) <= 548 THEN 10
         ELSE IF Get(hold_days) <= 730 THEN 5
         ELSE 0
    ELSE 0

\* lines 1474-1483
GradeOf(score) ==
    IF score >= 85 THEN "A"
    ELSE IF score >= 70 THEN "B"
    ELSE IF score >= 55 THEN "C"
    ELSE IF score >= 40 THEN "D"
    ELSE "F"

\* _calculate_deal_fitness_score(metrics, permit_categories, timeline_summary,
\* cost_model); the last two arguments are not read
CalculateDealFitnessScore(m, cats) ==
    LET roi_score        == RoiScore(m.roi_pct)
        complexity_score == ComplexityScore(cats.permit_complexity_score)
        mot_score        == MotScore(m.spread_per_day)
        hold_score       == HoldScore(m.hold_days)
        score            == roi_score + complexity_score + mot_score + hold_score
    IN  [score |-> score,
         grade |-> GradeOf(score),
         components |-> [roi_score |-> roi_score, complexity_score |-> complexity_score,
                         mot_score |-> mot_score, hold_score |-> hold_score],
         max_score |-> 100]

----------------------------------------------------------------------------
(* Team network: _is_valid_name and _extract_team_network.  A name is an Optional *)
(* text.                                                                          *)

RECURSIVE LStrip(_)
LStrip(text) == IF text # << >> /\ Head(text) = " " THEN LStrip(Tail(text)) ELSE text

RECURSIVE RStrip(_)
RStrip(text) == IF text # << >> /\ Last(text) = " " THEN RStrip(Front(text)) ELSE text

\* str.strip(), the whitespace being blanks
Strip(text) == RStrip(LStrip(text))

\* line 153
\* "N/A", "NA", "NONE", "UNKNOWN", "-", "--", ""
InvalidValues ==
    { <<"N", "/", "A">>,
      <<"N", "A">>,
      <<"N", "O", "N", "E">>,
      <<"U", "N", "K", "N", "O", "W", "N">>,
      <<"-">>,
      <<"-", "-">>,
      << >> }

\* _is_valid_name(name)
IsValidName(name) ==
    /\ name # NULL
    /\ Get(name) # << >>
    /\ Strip(Get(name)) # << >>
    /\ Upper(Strip(Get(name))) \notin InvalidValues

\* truth of an Optional text: neither None nor empty
HasText(x) == x # NULL /\ Get(x) # << >>

\* lines 794-826, for one role: the dict of members after one more permit naming
\* `name` with license `lic`; the dict is held in insertion order
CountMember(members, name, lic) ==
    IF ~IsValidName(name) THEN members
    ELSE LET key == Strip(Get(name))
         IN  IF \E i \in 1 .. Len(members) : members[i].name = key
             THEN [i \in 1 .. Len(members) |->
                      IF members[i].name = key
                      THEN [name |-> key,
                            license |-> IF HasText(lic) /\ ~HasText(members[i].license)
                                        THEN lic ELSE members[i].license,
                            count |-> members[i].count + 1]
                      ELSE members[i]]
             ELSE Append(members, [name |-> key, license |-> lic, count |-> 1])

RECURSIVE CollectMembers(_, _, _, _)
\* `for p in permits:` for the role held in the fields name_key and license_key
CollectMembers(ps, name_key, license_key, members) ==
    IF ps = << >> THEN members
    ELSE CollectMembers(Tail(ps), name_key, license_key,
                        CountMember(members, Head(ps)[name_key], Head(ps)[license_key]))

RECURSIVE InsertByCount(_, _)
\* x put behind every member of the descending list with a count >= its own
InsertByCount(sorted, x) ==
    IF sorted = << >> THEN << x >>
    ELSE IF Last(sorted).count >= x.count THEN Append(sorted, x)
    ELSE Append(InsertByCount(Front(sorted), x), Last(sorted))

RECURSIVE SortedByCount(_)
\* sorted(d.values(), key=lambda x: x["count"], reverse=True): stable
SortedByCount(members) ==
    IF members = << >> THEN << >>
    ELSE InsertByCount(SortedByCount(Front(members)), Last(members))

PickPrimaryAndOthers_Unsorted(members) ==
    IF members = << >> THEN << NULL, << >> >>
    ELSE << Some(Head(members)), Tail(members) >>

\* _pick_primary_and_others(d)
PickPrimaryAndOthers(members) ==
    IF members = << >> THEN << NULL, << >> >>
    ELSE LET sorted_list == SortedByCount(members)
         IN  << Some(Head(sorted_list)), Tail(sorted_list) >>

\* _extract_team_network(permits); cslb_url is held as the license it is built from
ExtractTeamNetwork(ps) ==
    LET gc   == PickPrimaryAndOthers(CollectMembers(ps, "contractor", "contractor_license", << >>))
        arch == PickPrimaryAndOthers(CollectMembers(ps, "architect", "architect_license", << >>))
        eng  == PickPrimaryAndOthers(CollectMembers(ps, "engineer", "engineer_license", << >>))
    IN  [primary_gc |-> gc[1], primary_architect |-> arch[1], primary_engineer |-> eng[1],
         other_contractors |-> gc[2], other_architects |-> arch[2],
         other_engineers |-> eng[2],
         gc_cslb_url |-> IF gc[1] # NULL /\ HasText(Get(gc[1]).license)
                         THEN Get(gc[1]).license ELSE NULL]

\* the names of the team network in the search-log entry (lines 1773, 1790-1793)
TeamLogEntry(address, tn) ==
    [address |-> address,
     primary_gc_name |-> IF tn.primary_gc # NULL
                         THEN Some(Get(tn.primary_gc).name) ELSE NULL,
     primary_gc_license |-> IF tn.primary_gc # NULL
                            THEN Get(tn.primary_gc).license ELSE NULL,
     primary_architect_name |-> IF tn.primary_architect # NULL
                                THEN Some(Get(tn.primary_architect).name) ELSE NULL,
     primary_engineer_name |-> IF tn.primary_engineer # NULL
                               THEN Some(Get(tn.primary_engineer).name) ELSE NULL]

\* the characters \w keeps once the address is in upper case
WordChars ==
    { "A", "B", "C", "D", "E", "F", "G", "H", "I", "J", "K", "L", "M", "N", "O", "P", "Q", "R", "S", "T", "U", "V", "W", "X", "Y", "Z", "0", "1", "2", "3", "4", "5", "6", "7", "8", "9", "_" }

RECURSIVE JoinWords(_, _)
\* ' '.join(addr.split()).strip(): blanks between words become one, those at the
\* ends go; pending says a blank is owed before the next word character
JoinWords(text, pending) ==
    IF text = << >> THEN << >>
    ELSE IF Head(text) = " " THEN JoinWords(Tail(text), TRUE)
    ELSE (IF pending THEN << " " >> ELSE << >>) \o << Head(text) >>
             \o JoinWords(Tail(text), FALSE)

\* _canonicalize_address(address)
CanonicalizeAddress(address) ==
    LET addr     == Upper(address)
        spaced   == [i \in 1 .. Len(addr) |->
                        IF addr[i] \in {",", ".", " "} THEN " " ELSE addr[i]]
        IsKept(c) == c \in WordChars \/ c = " "
        kept     == SelectSeq(spaced, IsKept)
        joined   == JoinWords(kept, FALSE)
    IN  IF joined # << >> /\ Head(joined) = " " THEN Tail(joined) ELSE joined

\* lines 115-127 for one role: the map from name to set of canonical addresses
\* after one more log entry, in insertion order
AddPlayer(m, name, canonical_addr) ==
    IF ~IsValidName(name) THEN m
    ELSE IF \E i \in 1 .. Len(m) : m[i].name = Get(name)
         THEN [i \in 1 .. Len(m) |->
                  IF m[i].name = Get(name)
                  THEN [name |-> m[i].name,
                        addresses |-> m[i].addresses \cup {canonical_addr}]
                  ELSE m[i]]
         ELSE Append(m, [name |-> Get(name), addresses |-> {canonical_addr}])

RECURSIVE PlayerMap(_, _, _)
\* `for entry in _search_log:` for the role held in the field name_key
PlayerMap(log, name_key, m) ==
    IF log = << >> THEN m
    ELSE PlayerMap(Tail(log), name_key,
                   AddPlayer(m, Head(log)[name_key],
                             CanonicalizeAddress(Head(log).address)))

\* _top_n(m, 10); the sorted address list is held as the set it lists
TopN(m) ==
    LET sorted_items == SortedByCount([i \in 1 .. Len(m) |->
                            [name |-> m[i].name,
                             count |-> Cardinality(m[i].addresses),
                             addresses |-> m[i].addresses]])
    IN  SubSeq(sorted_items, 1, Min(10, Len(sorted_items)))

\* get_repeat_players(), on the log it sees under the lock
GetRepeatPlayers(log) ==
    [top_gcs |-> TopN(PlayerMap(log, "primary_gc_name", << >>)),
     top_architects |-> TopN(PlayerMap(log, "primary_architect_name", << >>)),
     top_engineers |-> TopN(PlayerMap(log, "primary_engineer_name", << >>))]

----------------------------------------------------------------------------
(* Permit timeline, project contacts, property snapshot and data notes *)

\* line 280
\* "BLDG", "BUILDING", "ADDITION", "NEW"
BuildingTypeKeywords ==
    { <<"B", "L", "D", "G">>,
      <<"B", "U", "I", "L", "D", "I", "N", "G">>,
      <<"A", "D", "D", "I", "T", "I", "O", "N">>,
      <<"N", "E", "W">> }

\* line 311: "APPLICATION", "SUBMIT"
SubmittedKeywords ==
    { <<"A", "P", "P", "L", "I", "C", "A", "T", "I", "O", "N">>,
      <<"S", "U", "B", "M", "I", "T">> }

\* line 316: "PLAN CHECK APPROV", "PC APPROV"
ApprovedKeywords ==
    { <<"P", "L", "A", "N", " ", "C", "H", "E", "C", "K", " ", "A", "P", "P", "R", "O", "V">>,
      <<"P", "C", " ", "A", "P", "P", "R", "O", "V">> }

\* line 321: "ISSUED", "PERMIT ISSUED"
StartKeywords ==
    { <<"I", "S", "S", "U", "E", "D">>,
      <<"P", "E", "R", "M", "I", "T", " ", "I", "S", "S", "U", "E", "D">> }

\* line 326: "FINAL", "CERTIFICATE OF OCCUPANCY"
CompletedKeywords ==
    { <<"F", "I", "N", "A", "L">>,
      <<"C", "E", "R", "T", "I", "F", "I", "C", "A", "T", "E", " ", "O", "F", " ", "O", "C", "C", "U", "P", "A", "N", "C", "Y">> }

\* _parse_permit_timeline(permits) of an empty list: {}, a key that is not set is
\* held as NULL
NoPermitTimeline ==
    [plans_submitted_date |-> NULL, plans_approved_date |-> NULL,
     construction_start_date |-> NULL, construction_completed_date |-> NULL]

\* the permit types and status event names of the sample permits
KnownTexts ==
    { <<"A", "p", "p", "l", "i", "c", "a", "t", "i", "o", "n", " ", "S", "u", "b", "m", "i", "t", "t", "e", "d">>,
      <<"P", "l", "a", "n", " ", "C", "h", "e", "c", "k", " ", "A", "p", "p", "r", "o", "v", "e", "d">>,
      <<"I", "s", "s", "u", "e", "d">>,
      <<"P", "e", "r", "m", "i", "t", " ", "F", "i", "n", "a", "l", "e", "d">>,
      <<"B", "l", "d", "g", "-", "N", "e", "w">>,
      <<"P", "l", "u", "m", "b", "i", "n", "g">>,
      <<"B", "l", "d", "g", "-", "A", "d", "d", "i", "t", "i", "o", "n">>,
      <<"S", "w", "i", "m", "m", "i", "n", "g", "-", "P", "o", "o", "l", "/", "S", "p", "a">> }

\* the keywords found in each known text, upper-cased
TextHits ==
    [text \in KnownTexts |->
        {kw \in BuildingTypeKeywords \cup SubmittedKeywords \cup ApprovedKeywords
                   \cup StartKeywords \cup CompletedKeywords :
            Contains(Upper(text), kw)}]

\* any(keyword in text.upper() for keyword in kws)
AnyKeyword(text, kws) ==
    IF text \in KnownTexts THEN TextHits[text] \cap kws # {}
    ELSE \E kw \in kws : Contains(Upper(text), kw)

RECURSIVE StatusEvents(_)
\* the status events of the permits, in the order the loops of lines 295-298 visit
\* them
StatusEvents(ps) ==
    IF ps = << >> THEN << >> ELSE Head(ps).status_history \o StatusEvents(Tail(ps))

\* the earliest date among the dated events whose name holds one of the keywords; a
\* date is a day number, an event without a readable date has none
EarliestOf(events, kws) ==
    LET dates == {Get(events[i].date) :
                     i \in {j \in 1 .. Len(events) :
                               events[j].date # NULL /\ AnyKeyword(events[j].event, kws)}}
    IN  IF dates = {} THEN NULL
        ELSE Some(CHOOSE d \in dates : \A e \in dates : d <= e)

\* _parse_permit_timeline(permits)
ParsePermitTimeline(ps) ==
    IF ps = << >> THEN NoPermitTimeline
    ELSE LET IsBuilding(p) == AnyKeyword(p.permit_type, BuildingTypeKeywords)
             found  == SelectSeq(ps, IsBuilding)
             building_permits == IF found = << >> THEN ps ELSE found
             events == StatusEvents(building_permits)
         IN  [plans_submitted_date |-> EarliestOf(events, SubmittedKeywords),
              plans_approved_date |-> EarliestOf(events, ApprovedKeywords),
              construction_start_date |-> EarliestOf(events, StartKeywords),
              construction_completed_date |-> EarliestOf(events, CompletedKeywords)]

Digits == {"0", "1", "2", "3", "4", "5", "6", "7", "8", "9"}

\* re.search(r"\b(\d{6,8})\b", text): the first run of 6 to 8 digits that no word
\* character touches
LicenseIn(text) ==
    LET n == Len(text)
        IsWord(c) == c \in WordChars \/ c \in DOMAIN UpperOf
        Matches(i, j) ==
            /\ (j - i + 1) \in 6 .. 8
            /\ \A k \in i .. j : text[k] \in Digits
            /\ (i = 1) \/ ~IsWord(text[i - 1])
            /\ (j = n) \/ ~IsWord(text[j + 1])
        starts == {i \in 1 .. n : \E j \in i .. n : Matches(i, j)}
    IN  IF starts = {} THEN NULL
        ELSE LET i == CHOOSE s \in starts : \A t \in starts : s <= t
             IN  Some(SubSeq(text, i, CHOOSE j \in i .. n : Matches(i, j)))

\* contractor_text.split(":", 1)[1].strip() when the text holds a colon
BusinessNameIn(text) ==
    IF \E i \in 1 .. Len(text) : text[i] = ":"
    THEN LET c == CHOOSE i \in 1 .. Len(text) :
                     text[i] = ":" /\ \A j \in 1 .. (i - 1) : text[j] # ":"
         IN  Strip(SubSeq(text, c + 1, Len(text)))
    ELSE text

\* _extract_basic_project_contacts(ladbs): the contractor object, or NULL for {}
ExtractBasicProjectContacts(ps) ==
    LET Usable(p) == /\ HasText(p.Contractor_Info)
                     /\ Strip(Get(p.Contractor_Info)) # << >>
                     /\ Upper(Strip(Get(p.Contractor_Info))) # <<"N", "/", "A">>
        usable == SelectSeq(ps, Usable)
    IN  IF usable = << >> THEN NULL
        ELSE LET contractor_text == Strip(Get(Head(usable).Contractor_Info))
             IN  Some([raw |-> contractor_text,
                       business_name |-> BusinessNameIn(contractor_text),
                       license |-> LicenseIn(contractor_text)])

\* _build_property_snapshot(redfin, metrics, permits): the address and the two areas
\* of the snapshot
BuildPropertySnapshot(rf, m) ==
    [address_full |-> IF rf.address = NULL THEN <<"U", "n", "k", "n", "o", "w", "n", " ", "a", "d", "d", "r", "e", "s", "s">> ELSE Get(rf.address),
     building_sf |-> OrElse(rf.building_sf, m.building_sf_after),
     lot_sf |-> OrElse(rf.lot_sf, m.land_sf)]

NoteRedfin == "Redfin data unavailable; property details may be incomplete."
NoteLadbs == "LADBS data unavailable; permit history not verified."
NotePurchasePrice == "Purchase price unknown (no prior developer sale in Redfin history); spread, ROI, and profit not computed."
NotePurchaseDate == "Purchase date unknown; timeline durations may be incomplete."
NotePurchaseAfterPlans == "Purchase -> plans duration omitted because available purchase date is after permit dates."
NoteLotSize == "Lot size not found; FAR calculations not available."
NoteCofo == "Certificate of Occupancy date not found; construction completion timing uncertain."
NoteBuildingSf == "Building square footage not available from Redfin listing data."
NoteProfit == "Profit could not be estimated; exit price not available."

\* `if cond: notes.append(note)`
NoteIf(cond, note) == IF cond THEN << note >> ELSE << >>

BuildDataNotes_CofoSilent(m, snapshot, pt, cm, redfin_ok, ladbs_ok) ==
    NoteIf(~redfin_ok, NoteRedfin) \o NoteIf(~ladbs_ok, NoteLadbs)
    \o NoteIf(~Truthy(m.purchase_price), NotePurchasePrice)
    \o NoteIf(~Truthy(m.land_sf), NoteLotSize)
    \o NoteIf(~Truthy(snapshot.building_sf), NoteBuildingSf)
    \o NoteIf(Truthy(m.purchase_price) /\ cm.estimated_profit = NULL, NoteProfit)

\* _build_data_notes(metrics, property_snapshot, permit_timeline, timeline_summary,
\* cost_model, construction_summary, redfin_ok, ladbs_ok); timeline_summary and
\* construction_summary are not read
BuildDataNotes(m, snapshot, pt, cm, redfin_ok, ladbs_ok) ==
    LET purchase_date   == m.purchase_date
        plans_submitted == pt.plans_submitted_date
    IN  NoteIf(~redfin_ok, NoteRedfin)
        \o NoteIf(~ladbs_ok, NoteLadbs)
        \o NoteIf(~Truthy(m.purchase_price), NotePurchasePrice)
        \o NoteIf(purchase_date = NULL /\ Truthy(m.purchase_price), NotePurchaseDate)
        \o NoteIf(plans_submitted # NULL /\ purchase_date # NULL
                     /\ Get(purchase_date) > Get(plans_submitted), NotePurchaseAfterPlans)
        \o NoteIf(~Truthy(m.land_sf), NoteLotSize)
        \o NoteIf(pt.construction_completed_date = NULL, NoteCofo)
        \o NoteIf(~Truthy(snapshot.building_sf), NoteBuildingSf)
        \o NoteIf(Truthy(m.purchase_price) /\ cm.estimated_profit = NULL, NoteProfit)

\* _build_links(url, team_network): the license page of the primary contractor
BuildLinks(tn) == [gc_cslb_url |-> tn.gc_cslb_url]

----------------------------------------------------------------------------
(* Narrative: summarize_comp and its fallback generator (ai_summarizer.py).  A *)
(* bullet is its text and the figure it quotes, if any.                         *)

Line(text) == << text, NULL >>

LineWith(text, figure) == << text, Some(figure) >>

\* `if cond: bullets.append(bullet)`
LineIf(cond, bullet) == IF cond THEN << bullet >> ELSE << >>

\* bullets[:n]
FirstN(bullets, n) == SubSeq(bullets, 1, Min(n, Len(bullets)))

\* _build_fallback_strategy_notes(combined_data); roi_pct is in hundredths
BuildFallbackStrategyNotes(combined_data) ==
    LET m    == combined_data.metrics
        cats == combined_data.permit_categories
        cs   == combined_data.construction_summary
        gc   == combined_data.team_network.primary_gc
        tactics ==
            << IF cats.scope_level = "HEAVY"
               THEN Line("Major construction project - ground-up build or substantial addition")
               ELSE IF cats.scope_level = "MEDIUM"
               THEN Line("Moderate scope - significant remodel or addition work")
               ELSE Line("Light scope - cosmetic or minor permitted work") >>
            \o LineIf(cats.has_adu,
                      Line("Added ADU to maximize density and rental income potential"))
            \o LineIf(cats.has_new_structure,
                      Line("New structure built - maximized FAR utilization"))
            \o (IF cs.is_new_construction
                THEN << Line("Ground-up new construction on cleared lot") >>
                ELSE LineIf(Truthy(cs.added_sf),
                            LineWith("Added SF to existing structure", OrZero(cs.added_sf))))
            \o LineIf(cats.has_pool, Line("Pool added for market appeal in luxury segment"))
        flagged ==
            LineIf(cats.has_grading_or_hillside,
                   Line("Hillside/grading permits indicate challenging site conditions"))
            \o LineIf(cats.has_methane,
                      Line("Methane mitigation required - additional construction complexity"))
            \o LineIf(cats.has_fire_sprinklers,
                      IF cats.removed_fire_sprinklers
                      THEN Line("Fire sprinkler system removed - may indicate permit strategy")
                      ELSE Line("Fire sprinkler system required - adds to construction cost"))
            \o LineIf(cats.permit_complexity_score = "HIGH",
                      Line("High permit complexity - multiple supplements and specialty permits"))
            \o LineIf(cats.supplement_count >= 3,
                      LineWith("Multiple permit supplements may indicate plan changes or issues",
                               cats.supplement_count))
        risks ==
            IF flagged = << >>
            THEN << Line("Standard permitting process - no unusual complexities detected") >>
            ELSE flagged
        insights ==
            (IF m.roi_pct # NULL /\ Get(m.roi_pct) > 3000
             THEN << LineWith("Strong returns in current market conditions", Get(m.roi_pct)) >>
             ELSE LineIf(m.roi_pct # NULL,
                         LineWith("Moderate returns for this scope of work", OrZero(m.roi_pct))))
            \o (IF ~Truthy(m.hold_days) THEN << >>
                ELSE IF Get(m.hold_days) <= 365
                THEN << LineWith("Quick turnaround suggests efficient execution",
                                 Get(m.hold_days)) >>
                ELSE IF Get(m.hold_days) <= 548
                THEN << LineWith("Standard timeline for scope of work", Get(m.hold_days)) >>
                ELSE << LineWith("Extended hold period may indicate permitting or market challenges",
                                 Get(m.hold_days)) >>)
            \o LineIf(gc # NULL /\ Contains(Upper(Get(gc).name), <<"O", "W", "N", "E", "R">>),
                      Line("Owner-builder project - experienced developer self-performing"))
    IN  [tactics |-> FirstN(tactics, 6),
         risks |-> FirstN(risks, 3),
         insights |-> IF insights = << >>
                      THEN << Line("Insufficient data for market insights") >>
                      ELSE FirstN(insights, 2),
         source |-> "fallback"]

\* lines 204-205: the parsed object, tagged
TaggedApi(parsed) == [source |-> "api"] @@ parsed

\* lines 211-216: the raw text as the only tactic
RawNotes(result_text) ==
    [tactics |-> << Line(result_text) >>, risks |-> << >>, insights |-> << >>,
     source |-> "api_raw"]

\* summarize_comp(combined_data).  reply holds what the call meets: whether API_KEY is
\* set, how the request ends ("response", "request_error", "error"), the result text
\* of the response (NULL when it is not a string, "" when blank), what json.loads
\* makes of the cleaned text ("invalid", "array", "object"), what the object holds
\* under "tactics" ("absent", "text", "list") and the object itself
SummarizeComp(combined_data, reply) ==
    IF ~reply.has_key THEN BuildFallbackStrategyNotes(combined_data)
    ELSE IF reply.outcome # "response" THEN BuildFallbackStrategyNotes(combined_data)
    ELSE IF reply.result_text = NULL \/ reply.result_text = Some("")
    THEN BuildFallbackStrategyNotes(combined_data)
    ELSE IF reply.json = "object" /\ reply.tactics # "absent" THEN TaggedApi(reply.parsed)
    ELSE RawNotes(Get(reply.result_text))

----------------------------------------------------------------------------
(* Records of a run before the step that fills them *)

BlankRedfin ==
    [timeline |-> <<>>, list_price |-> NULL, building_sf |-> NULL,
     listing_building_sf |-> NULL, public_building_sf |-> NULL,
     public_lot_sf |-> NULL, lot_sf |-> NULL]

Unset == [unset |-> TRUE]

----------------------------------------------------------------------------
(* The pipeline: run_full_comp_pipeline.  A fetch is [kind, data] with kind "ok" *)
(* (data is what the collaborator returned), "raises" or "invalid" (it returned  *)
(* something that is not a record).                                              *)

\* lines 1595-1603; a key the record lacks reads as None
RedfinError ==
    [source |-> "redfin_error",
     address |-> Some(<<"U", "n", "k", "n", "o", "w", "n", " ", "(", "R", "e", "d", "f", "i", "n", " ", "f", "e", "t", "c", "h", " ", "f", "a", "i", "l", "e", "d", ")">>)] @@ BlankRedfin

\* line 1607
RedfinInvalid == [source |-> "redfin_invalid", address |-> NULL] @@ BlankRedfin

\* lines 1624-1628
LadbsError ==
    [source |-> "ladbs_error", permits |-> << >>,
     note |-> "LADBS data unavailable due to error."]

\* line 1632
LadbsInvalid ==
    [source |-> "ladbs_invalid", permits |-> << >>, note |-> "Invalid LADBS data."]

\* lines 1588-1607
RedfinData(fetch) ==
    IF fetch.kind = "raises" THEN RedfinError
    ELSE IF fetch.kind = "invalid" THEN RedfinInvalid
    ELSE fetch.data

\* lines 1617-1634
LadbsData(fetch) ==
    IF fetch.kind = "raises" THEN LadbsError
    ELSE IF fetch.kind = "invalid" THEN LadbsInvalid
    ELSE fetch.data

\* the sources that begin with "ladbs_stub_" (permit scraper, lines 526-558)
LadbsStubSources ==
    {"ladbs_stub_no_selenium", "ladbs_stub_no_url", "ladbs_stub_bad_address",
     "ladbs_stub_driver_error"}

\* line 1679
RedfinOk(source) == source \notin {"redfin_error", "redfin_invalid", "redfin_fetch_error"}

LadbsOk_InvalidOnly(source) == source \notin {"ladbs_invalid"}

\* line 1683
LadbsOk(source) == source \notin LadbsStubSources \cup {"ladbs_error", "ladbs_invalid"}

\* the three fields of a permit the classifier reads
Classified(ps) ==
    [i \in 1 .. Len(ps) |->
        [permit_type |-> ps[i].permit_type, work_description |-> ps[i].work_description,
         sub_type |-> ps[i].sub_type]]

\* lines 1649-1669: cslb_contractor, cslb_ok, cslb_error and whether the lookup was
\* called, for the outcome the lookup would have
CslbLookup(project_contacts, outcome) ==
    IF project_contacts # NULL /\ HasText(Get(project_contacts).license)
    THEN IF outcome = "found"
         THEN [cslb_contractor |-> Some([license |-> Get(Get(project_contacts).license),
                                         source |-> "cslb"]),
               cslb_ok |-> TRUE, cslb_error |-> NULL, called |-> TRUE]
         ELSE IF outcome = "not_found"
         THEN [cslb_contractor |-> NULL, cslb_ok |-> FALSE,
               cslb_error |-> Some("No data found for license"), called |-> TRUE]
         ELSE [cslb_contractor |-> NULL, cslb_ok |-> FALSE,
               cslb_error |-> Some("lookup raised"), called |-> TRUE]
    ELSE [cslb_contractor |-> NULL, cslb_ok |-> TRUE, cslb_error |-> NULL,
          called |-> FALSE]

StrategyNotes_Always(combined_data, outcome) ==
    Some(BuildFallbackStrategyNotes(combined_data))

\* lines 1705-1719: the narrative of a generator that returns is the one
\* summarize_comp gives without an API key
StrategyNotes(combined_data, outcome) ==
    IF outcome = "raises" THEN NULL
    ELSE Some(BuildFallbackStrategyNotes(combined_data))

\* lines 1722-1768: the combined report, from the sections computed before it
ReportRecord(c, redfin_data, ladbs_data, pt, cats, tn, contacts, cslb, m, pd, snapshot, cs, cm, ts, redfin_ok, ladbs_ok) ==
    [address |-> IF redfin_data.address = NULL THEN <<"U", "n", "k", "n", "o", "w", "n", " ", "a", "d", "d", "r", "e", "s", "s">>
                 ELSE Get(redfin_data.address),
     metrics |-> m, permit_timeline |-> pt, project_durations |-> pd,
     permit_summary |-> ladbs_data.note, permit_count |-> Len(ladbs_data.permits),
     ladbs |-> ladbs_data, redfin |-> redfin_data,
     project_contacts |-> contacts,
     cslb_contractor |-> cslb.cslb_contractor,
     permit_categories |-> cats, team_network |-> tn,
     redfin_ok |-> redfin_ok,
     redfin_error |-> IF redfin_ok THEN NULL
                      ELSE Some("Redfin data unavailable (scrape error or no match)"),
     ladbs_ok |-> ladbs_ok,
     ladbs_error |-> IF ladbs_ok THEN NULL ELSE Some(ladbs_data.note),
     cslb_ok |-> cslb.cslb_ok, cslb_error |-> cslb.cslb_error,
     property_snapshot |-> snapshot, construction_summary |-> cs,
     cost_model |-> cm, timeline_summary |-> ts,
     deal_fitness |-> CalculateDealFitnessScore(m, cats),
     strategy_notes |-> StrategyNotes([metrics |-> m, permit_categories |-> cats,
                                       construction_summary |-> cs,
                                       timeline_summary |-> ts, team_network |-> tn,
                                       property_snapshot |-> snapshot],
                                      c.narrative),
     data_notes |-> BuildDataNotes(m, snapshot, pt, cm, redfin_ok, ladbs_ok),
     links |-> BuildLinks(tn),
     hold_months |-> IF Truthy(m.hold_days)
                     THEN Some(RoundTo(100 * Get(m.hold_days), DaysPerMonthX100, 1))
                     ELSE NULL]

\* lines 1691-1702: cost model and timeline summary, from the construction summary
\* and the project durations
ReportFromSummaries(c, redfin_data, ladbs_data, pt, cats, tn, contacts, cslb, m, pd, snapshot, cs) ==
    ReportRecord(c, redfin_data, ladbs_data, pt, cats, tn, contacts, cslb, m, pd,
                 snapshot, cs, BuildCostModel(m, cs, cats),
                 BuildTimelineSummary(m, pt, pd),
                 RedfinOk(redfin_data.source), LadbsOk(ladbs_data.source))

\* lines 1646, 1685-1688: project durations, property snapshot and construction
\* summary, from the headline metrics
ReportFromMetrics(c, redfin_data, ladbs_data, pt, cats, tn, contacts, cslb, m) ==
    ReportFromSummaries(c, redfin_data, ladbs_data, pt, cats, tn, contacts, cslb, m,
                        CalculateProjectDurations(m.purchase_date, pt),
                        BuildPropertySnapshot(redfin_data, m),
                        BuildConstructionSummary(m, cats))

\* lines 1640-1669: headline metrics (with the earliest plans-submitted date) and
\* the license lookup, from what the permits give
ReportFromPermits(c, redfin_data, ladbs_data, pt, cats, tn, contacts) ==
    ReportFromMetrics(c, redfin_data, ladbs_data, pt, cats, tn, contacts,
                      CslbLookup(contacts, c.cslb),
                      BuildHeadlineMetrics(redfin_data, pt.plans_submitted_date))

\* lines 1636-1675: permit timeline, categories, team network and contacts, from
\* the two source records
ReportFromSources(c, redfin_data, ladbs_data) ==
    ReportFromPermits(c, redfin_data, ladbs_data,
                      ParsePermitTimeline(ladbs_data.permits),
                      CategorizePermits(Classified(ladbs_data.permits)),
                      ExtractTeamNetwork(ladbs_data.permits),
                      ExtractBasicProjectContacts(ladbs_data.permits))

\* run_full_comp_pipeline(url): the combined report, for collaborators c
PipelineReport(c) == ReportFromSources(c, RedfinData(c.redfin), LadbsData(c.ladbs))

\* lines 1771-1794: the entry the run appends to the search log
PipelineLogEntry(r) ==
    [scope_level |-> r.permit_categories.scope_level]
    @@ TeamLogEntry(IF r.redfin.address = NULL THEN <<"U", "n", "k", "n", "o", "w", "n">> ELSE Get(r.redfin.address),
                    r.team_network)
    @@ BuildLogEntry(r.metrics)

\* the collaborators the run calls, in order
PipelineCalls(r, c) ==
    << "get_redfin_data", "get_ladbs_data" >>
    \o (IF CslbLookup(r.project_contacts, c.cslb).called
        THEN << "lookup_cslb_license" >> ELSE << >>)
    \o << "summarize_comp", "append_to_search_log" >>

----------------------------------------------------------------------------
(* Event Selector on its own: _pick_purchase_and_exit over every timeline *)

\* the timeline given by a choice f of (day, kind) per source row; the price of the
\* i-th source row is i price units, so that rows are told apart by their content
SelectorTimeline(n, f) ==
    [i \in 1 .. n |-> MkEvent(Some(f[i][1]), f[i][2], Some(MinPlausiblePrice * i))]

OptionalDays == {NULL} \cup {Some(d) : d \in Days}

InitSelect ==
    /\ pc = "select_input"
    /\ escaped = Unset
    /\ results = Unset
    /\ url_list = Unset
    /\ last_save_ok = Unset
    /\ committed = Unset
    /\ threads = Unset
    /\ disk = Unset
    /\ log_lock = Unset
    /\ calls = Unset
    /\ report = Unset
    /\ collaborators = Unset
    /\ api = Unset
    /\ strategy_notes = Unset
    /\ repeat_players = Unset
    /\ search_log = Unset
    /\ team_network = Unset
    /\ deal_fitness = Unset
    /\ \E n \in 0 .. MaxEvents : \E f \in [1 .. n -> Days \X EventKinds] :
           redfin = [BlankRedfin EXCEPT !.timeline = SelectorTimeline(n, f)]
    /\ earliest_permit_date \in OptionalDays
    /\ purchase_event = NULL
    /\ exit_event = NULL
    /\ permits = <<>>
    /\ permit_categories = Unset
    /\ metrics = Unset
    /\ construction_summary = Unset
    /\ cost_model = Unset
    /\ log_entry = Unset
    /\ permit_timeline = Unset
    /\ project_durations = Unset
    /\ timeline_summary = Unset

SelectEvents ==
    /\ pc = "select_input"
    /\ LET picked == PickPurchaseAndExit(redfin.timeline, earliest_permit_date)
       IN  /\ purchase_event' = picked[1]
           /\ exit_event' = picked[2]
    /\ pc' = "selected"
    /\ UNCHANGED <<redfin, earliest_permit_date, permits, permit_categories, metrics,
                   construction_summary, cost_model, log_entry, permit_timeline,
                   project_durations, timeline_summary, deal_fitness, team_network, search_log, repeat_players, strategy_notes, api, collaborators, report, calls, log_lock, disk, threads, committed, last_save_ok, url_list, results, escaped>>

NextSelect == SelectEvents

SpecSelect == InitSelect /\ [][NextSelect]_vars

----------------------------------------------------------------------------
(* Metrics Engine and Cost Model on a listing record: lines 1642-1795 of a run *)

MaxListingRows == 2

\* priced timeline rows as parse_sale_history keeps them (sold, listed, price changed)
ScrapedKinds == {"sold", "listed", "price_changed"}

\* public-record area, listing area and lot area of a listing page
ListingFacts ==
    { [public_building_sf |-> NULL,       building_sf |-> NULL,       lot_sf |-> NULL],
      [public_building_sf |-> NULL,       building_sf |-> Some(1500), lot_sf |-> Some(5000)],
      [public_building_sf |-> Some(1000), building_sf |-> Some(2500), lot_sf |-> Some(5000)],
      [public_building_sf |-> Some(1000), building_sf |-> Some(1000), lot_sf |-> NULL] }

ListPrices == {NULL, Some(MinPlausiblePrice * 9)}

MkRedfin(tl, lp, facts) ==
    [timeline |-> tl, list_price |-> lp, building_sf |-> facts.building_sf,
     listing_building_sf |-> facts.building_sf,
     public_building_sf |-> facts.public_building_sf,
     public_lot_sf |-> facts.lot_sf, lot_sf |-> facts.lot_sf]

\* the two flags of the permit categories the cost model reads
CategoriesWith(adu, pool) ==
    [NoPermitCategories EXCEPT !.has_adu = adu, !.has_pool = pool,
                               !.scope_level = IF adu THEN "HEAVY" ELSE "LIGHT"]

InitMetrics ==
    /\ pc = "metrics_input"
    /\ escaped = Unset
    /\ results = Unset
    /\ url_list = Unset
    /\ last_save_ok = Unset
    /\ committed = Unset
    /\ threads = Unset
    /\ disk = Unset
    /\ log_lock = Unset
    /\ calls = Unset
    /\ report = Unset
    /\ collaborators = Unset
    /\ api = Unset
    /\ strategy_notes = Unset
    /\ repeat_players = Unset
    /\ search_log = Unset
    /\ team_network = Unset
    /\ deal_fitness = Unset
    /\ \E n \in 0 .. MaxListingRows : \E f \in [1 .. n -> Days \X ScrapedKinds] :
       \E lp \in ListPrices : \E facts \in ListingFacts :
           redfin = MkRedfin(SelectorTimeline(n, f), lp, facts)
    /\ earliest_permit_date \in OptionalDays
    /\ \E flag \in BOOLEAN : permit_categories = CategoriesWith(flag, flag)
    /\ purchase_event = NULL
    /\ exit_event = NULL
    /\ permits = <<>>
    /\ metrics = Unset
    /\ construction_summary = Unset
    /\ cost_model = Unset
    /\ log_entry = Unset
    /\ permit_timeline = Unset
    /\ project_durations = Unset
    /\ timeline_summary = Unset

DeriveReport ==
    /\ pc = "metrics_input"
    /\ LET picked == PickPurchaseAndExit(redfin.timeline, earliest_permit_date)
           m      == BuildHeadlineMetrics(redfin, earliest_permit_date)
           cs     == BuildConstructionSummary(m, permit_categories)
       IN  /\ purchase_event' = picked[1]
           /\ exit_event' = picked[2]
           /\ metrics' = m
           /\ construction_summary' = cs
           /\ cost_model' = BuildCostModel(m, cs, permit_categories)
           /\ log_entry' = BuildLogEntry(m)
    /\ pc' = "derived"
    /\ UNCHANGED <<redfin, earliest_permit_date, permits, permit_categories,
                   permit_timeline, project_durations, timeline_summary, deal_fitness, team_network, search_log, repeat_players, strategy_notes, api, collaborators, report, calls, log_lock, disk, threads, committed, last_save_ok, url_list, results, escaped>>

NextMetrics == DeriveReport

SpecMetrics == InitMetrics /\ [][NextMetrics]_vars

----------------------------------------------------------------------------
(* Cost Model on its own: _build_cost_model over every metrics record *)

\* the metrics of a listing page without sale history, with the given price facts
MetricsWith(facts, pp, xp, lp, hd) ==
    [BuildHeadlineMetrics(MkRedfin(<<>>, lp, facts), NULL)
        EXCEPT !.purchase_price = pp, !.exit_price = xp, !.hold_days = hd]

\* the listing facts, with an addition smaller than a typical ADU, a listing area
\* below the public-record area, and a public-record area of 0
CostFacts ==
    ListingFacts \cup
    { [public_building_sf |-> Some(1000), building_sf |-> Some(1600), lot_sf |-> Some(5000)],
      [public_building_sf |-> Some(2500), building_sf |-> Some(2000), lot_sf |-> Some(5000)],
      [public_building_sf |-> Some(0),    building_sf |-> Some(1500), lot_sf |-> Some(5000)] }

OptionalPrice(k) == {NULL, Some(MinPlausiblePrice * k)}

OptionalHoldDays == {NULL} \cup {Some(d) : d \in 0 .. MaxDay}

InitCost ==
    /\ pc = "cost_input"
    /\ escaped = Unset
    /\ results = Unset
    /\ url_list = Unset
    /\ last_save_ok = Unset
    /\ committed = Unset
    /\ threads = Unset
    /\ disk = Unset
    /\ log_lock = Unset
    /\ calls = Unset
    /\ report = Unset
    /\ collaborators = Unset
    /\ api = Unset
    /\ strategy_notes = Unset
    /\ repeat_players = Unset
    /\ search_log = Unset
    /\ team_network = Unset
    /\ deal_fitness = Unset
    /\ \E facts \in CostFacts : \E pp \in OptionalPrice(4) : \E xp \in OptionalPrice(30) :
       \E lp \in ListPrices : \E hd \in OptionalHoldDays :
           metrics = MetricsWith(facts, pp, xp, lp, hd)
    /\ \E adu \in BOOLEAN : \E pool \in BOOLEAN : permit_categories = CategoriesWith(adu, pool)
    /\ redfin = BlankRedfin
    /\ earliest_permit_date = NULL
    /\ purchase_event = NULL
    /\ exit_event = NULL
    /\ permits = <<>>
    /\ construction_summary = Unset
    /\ cost_model = Unset
    /\ log_entry = Unset
    /\ permit_timeline = Unset
    /\ project_durations = Unset
    /\ timeline_summary = Unset

DeriveCost ==
    /\ pc = "cost_input"
    /\ LET cs == BuildConstructionSummary(metrics, permit_categories)
       IN  /\ construction_summary' = cs
           /\ cost_model' = BuildCostModel(metrics, cs, permit_categories)
    /\ pc' = "costed"
    /\ UNCHANGED <<redfin, earliest_permit_date, purchase_event, exit_event, permits,
                   permit_categories, metrics, log_entry, permit_timeline,
                   project_durations, timeline_summary, deal_fitness, team_network, search_log, repeat_players, strategy_notes, api, collaborators, report, calls, log_lock, disk, threads, committed, last_save_ok, url_list, results, escaped>>

NextCost == DeriveCost

SpecCost == InitCost /\ [][NextCost]_vars

----------------------------------------------------------------------------
(* Timeline Assembler on its own: every choice of milestone, purchase and exit date *)

\* metrics that hold nothing but the two dates the assembler reads
MetricsWithDates(purchase_date, exit_date) ==
    [BuildHeadlineMetrics(BlankRedfin, NULL)
        EXCEPT !.purchase_date = purchase_date, !.exit_date = exit_date]

InitTimeline ==
    /\ pc = "timeline_input"
    /\ escaped = Unset
    /\ results = Unset
    /\ url_list = Unset
    /\ last_save_ok = Unset
    /\ committed = Unset
    /\ threads = Unset
    /\ disk = Unset
    /\ log_lock = Unset
    /\ calls = Unset
    /\ report = Unset
    /\ collaborators = Unset
    /\ api = Unset
    /\ strategy_notes = Unset
    /\ repeat_players = Unset
    /\ search_log = Unset
    /\ team_network = Unset
    /\ deal_fitness = Unset
    /\ \E p \in OptionalDays : \E x \in OptionalDays : metrics = MetricsWithDates(p, x)
    /\ permit_timeline \in [plans_submitted_date : OptionalDays,
                            plans_approved_date : OptionalDays,
                            construction_start_date : OptionalDays,
                            construction_completed_date : OptionalDays]
    /\ redfin = BlankRedfin
    /\ earliest_permit_date = NULL
    /\ purchase_event = NULL
    /\ exit_event = NULL
    /\ permits = <<>>
    /\ permit_categories = Unset
    /\ construction_summary = Unset
    /\ cost_model = Unset
    /\ log_entry = Unset
    /\ project_durations = Unset
    /\ timeline_summary = Unset

AssembleTimeline ==
    /\ pc = "timeline_input"
    /\ LET pd == CalculateProjectDurations(metrics.purchase_date, permit_timeline)
       IN  /\ project_durations' = pd
           /\ timeline_summary' = BuildTimelineSummary(metrics, permit_timeline, pd)
    /\ pc' = "timeline_done"
    /\ UNCHANGED <<redfin, earliest_permit_date, purchase_event, exit_event, permits,
                   permit_categories, metrics, construction_summary, cost_model,
                   log_entry, permit_timeline, deal_fitness, team_network, search_log, repeat_players, strategy_notes, api, collaborators, report, calls, log_lock, disk, threads, committed, last_save_ok, url_list, results, escaped>>

NextTimeline == AssembleTimeline

SpecTimeline == InitTimeline /\ [][NextTimeline]_vars

----------------------------------------------------------------------------
(* Permit Classifier on its own: every short permit list, followed by copies of a
   routine permit *)

MaxPermits == 3

MaxRepeat == 5

\* the list of n chosen permits followed by k copies of a routine permit
PermitList(n, f, k, filler) ==
    [i \in 1 .. (n + k) |-> IF i <= n THEN f[i] ELSE filler]

InitPermits ==
    /\ pc = "permits_input"
    /\ escaped = Unset
    /\ results = Unset
    /\ url_list = Unset
    /\ last_save_ok = Unset
    /\ committed = Unset
    /\ threads = Unset
    /\ disk = Unset
    /\ log_lock = Unset
    /\ calls = Unset
    /\ report = Unset
    /\ collaborators = Unset
    /\ api = Unset
    /\ strategy_notes = Unset
    /\ repeat_players = Unset
    /\ search_log = Unset
    /\ team_network = Unset
    /\ deal_fitness = Unset
    /\ \E n \in 0 .. MaxPermits : \E f \in [1 .. n -> PermitVocabulary] :
       \E k \in 0 .. MaxRepeat : \E filler \in FillerPermits :
           permits = PermitList(n, f, k, filler)
    /\ redfin = BlankRedfin
    /\ earliest_permit_date = NULL
    /\ purchase_event = NULL
    /\ exit_event = NULL
    /\ permit_categories = Unset
    /\ metrics = Unset
    /\ construction_summary = Unset
    /\ cost_model = Unset
    /\ log_entry = Unset
    /\ permit_timeline = Unset
    /\ project_durations = Unset
    /\ timeline_summary = Unset

Categorize ==
    /\ pc = "permits_input"
    /\ permit_categories' = CategorizePermits(permits)
    /\ pc' = "categorized"
    /\ UNCHANGED <<redfin, earliest_permit_date, purchase_event, exit_event, permits,
                   metrics, construction_summary, cost_model, log_entry, permit_timeline,
                   project_durations, timeline_summary, deal_fitness, team_network, search_log, repeat_players, strategy_notes, api, collaborators, report, calls, log_lock, disk, threads, committed, last_save_ok, url_list, results, escaped>>

NextPermits == Categorize

SpecPermits == InitPermits /\ [][NextPermits]_vars

----------------------------------------------------------------------------
(* Deal Fitness on its own: metrics around every tier boundary *)

\* how far around each tier boundary the sampled inputs reach
FitnessSlack == 1

Around(boundaries) ==
    {b + e : b \in boundaries, e \in (0 - FitnessSlack) .. FitnessSlack}

\* roi_pct in hundredths of a percent
RoiSamples == {NULL} \cup {Some(v) : v \in Around({0, 1000, 2000, 3000, 5000})}

\* spread_per_day in hundredths
SpreadPerDaySamples ==
    {NULL} \cup {Some(v) : v \in Around({0, 50000, 100000, 200000, 300000})}

\* hold_days: the exit is never dated before the purchase
HoldSamples ==
    {NULL} \cup {Some(v) : v \in {h \in Around({0, 180, 365, 548, 730}) : h >= 0}}

ComplexityLabels == {"LOW", "MEDIUM", "HIGH", "UNKNOWN"}

\* the metrics record holding the three figures the score reads
MetricsWithFigures(roi, spd, hd) ==
    [BuildHeadlineMetrics(BlankRedfin, NULL)
        EXCEPT !.roi_pct = roi, !.spread_per_day = spd, !.hold_days = hd]

\* lines 438-450: spread_per_day is set exactly when the spread (hence roi_pct) is
\* known and hold_days is positive, and it has the sign of the spread
FiguresAgree(roi, spd, hd) ==
    /\ spd # NULL <=> (roi # NULL /\ hd # NULL /\ Get(hd) > 0)
    /\ spd # NULL /\ Get(roi) < 0 => Get(spd) <= 0
    /\ spd # NULL /\ Get(roi) > 0 => Get(spd) >= 0

InitFitness ==
    /\ pc = "fitness_input"
    /\ escaped = Unset
    /\ results = Unset
    /\ url_list = Unset
    /\ last_save_ok = Unset
    /\ committed = Unset
    /\ threads = Unset
    /\ disk = Unset
    /\ log_lock = Unset
    /\ calls = Unset
    /\ report = Unset
    /\ collaborators = Unset
    /\ api = Unset
    /\ strategy_notes = Unset
    /\ repeat_players = Unset
    /\ search_log = Unset
    /\ team_network = Unset
    /\ \E roi \in RoiSamples : \E spd \in SpreadPerDaySamples : \E hd \in HoldSamples :
           /\ FiguresAgree(roi, spd, hd)
           /\ metrics = MetricsWithFigures(roi, spd, hd)
    /\ \E label \in ComplexityLabels :
           permit_categories = [NoPermitCategories EXCEPT !.permit_complexity_score = label]
    /\ deal_fitness = Unset
    /\ redfin = BlankRedfin
    /\ earliest_permit_date = NULL
    /\ purchase_event = NULL
    /\ exit_event = NULL
    /\ permits = <<>>
    /\ construction_summary = Unset
    /\ cost_model = Unset
    /\ log_entry = Unset
    /\ permit_timeline = Unset
    /\ project_durations = Unset
    /\ timeline_summary = Unset

ScoreDeal ==
    /\ pc = "fitness_input"
    /\ deal_fitness' = CalculateDealFitnessScore(metrics, permit_categories)
    /\ pc' = "scored"
    /\ UNCHANGED <<redfin, earliest_permit_date, purchase_event, exit_event, permits,
                   permit_categories, metrics, construction_summary, cost_model,
                   log_entry, permit_timeline, project_durations, timeline_summary, team_network, search_log, repeat_players, strategy_notes, api, collaborators, report, calls, log_lock, disk, threads, committed, last_save_ok, url_list, results, escaped>>

NextFitness == ScoreDeal

SpecFitness == InitFitness /\ [][NextFitness]_vars

----------------------------------------------------------------------------
(* Metrics Engine on calendar dates: two recorded sales, no permits *)

\* dates <<year, month, day>> of the recorded sales
ScenarioDates == {<<y, m, d>> : y \in 2019 .. 2024, m \in {2, 3, 7, 12}, d \in {1, 15, 28}}

ScenarioPrices == {MinPlausiblePrice * 9, MinPlausiblePrice * 15}

\* datetime.fromisoformat of the date, as its day ordinal
OrdinalOf(date) == Ordinal(date[1], date[2], date[3])

\* the sale history [{d1, sold, p1}, {d2, sold, p2}]
TwoSales(d1, p1, d2, p2) ==
    << MkEvent(Some(OrdinalOf(d1)), "sold", Some(p1)),
       MkEvent(Some(OrdinalOf(d2)), "sold", Some(p2)) >>

InitScenario ==
    /\ pc = "metrics_input"
    /\ escaped = Unset
    /\ results = Unset
    /\ url_list = Unset
    /\ last_save_ok = Unset
    /\ committed = Unset
    /\ threads = Unset
    /\ disk = Unset
    /\ log_lock = Unset
    /\ calls = Unset
    /\ report = Unset
    /\ collaborators = Unset
    /\ api = Unset
    /\ strategy_notes = Unset
    /\ repeat_players = Unset
    /\ search_log = Unset
    /\ team_network = Unset
    /\ \E d1 \in ScenarioDates : \E d2 \in ScenarioDates :
       \E p1 \in ScenarioPrices : \E p2 \in ScenarioPrices :
           redfin = [BlankRedfin EXCEPT !.timeline = TwoSales(d1, p1, d2, p2)]
    /\ earliest_permit_date = NULL
    /\ permit_categories = NoPermitCategories
    /\ permits = <<>>
    /\ deal_fitness = Unset
    /\ purchase_event = NULL
    /\ exit_event = NULL
    /\ metrics = Unset
    /\ construction_summary = Unset
    /\ cost_model = Unset
    /\ log_entry = Unset
    /\ permit_timeline = Unset
    /\ project_durations = Unset
    /\ timeline_summary = Unset

SpecScenario == InitScenario /\ [][NextMetrics]_vars

----------------------------------------------------------------------------
(* Team network on its own: permit lists naming contacts and placeholders *)

MaxTeamPermits == 3

MaxTeamRepeat == 2

\* contact names as the permit pages give them: "ACME", " ACME ", "Bolt"
ContactNames ==
    { <<"A", "C", "M", "E">>,
      <<" ", "A", "C", "M", "E", " ">>,
      <<"B", "o", "l", "t">> }

\* placeholder texts: "", " ", "N/A", "Unknown", "-", "--", "---"
PlaceholderNames ==
    { << >>,
      <<" ">>,
      <<"N", "/", "A">>,
      <<"U", "n", "k", "n", "o", "w", "n">>,
      <<"-">>,
      <<"-", "-">>,
      <<"-", "-", "-">> }

\* the contact every further permit names
RepeatedContact == Some(<<"D", "y", "n", "a">>)

NameSamples == {NULL} \cup {Some(t) : t \in ContactNames \cup PlaceholderNames}

\* a permit record naming its contacts (lines 486-505 of the permit scraper)
TeamPermit(contractor, architect, engineer) ==
    [permit_type |-> PermitSign.permit_type,
     work_description |-> PermitSign.work_description,
     sub_type |-> << >>,
     contractor |-> contractor, contractor_license |-> NULL,
     architect |-> architect, architect_license |-> NULL,
     engineer |-> engineer, engineer_license |-> NULL]

\* n permits naming the contacts f[1..n], then k permits naming the repeated
\* contact; the architects are the same names one permit later, the engineers the
\* same names in reverse order
TeamPermitList(n, f, k) ==
    LET names == [i \in 1 .. (n + k) |-> IF i <= n THEN f[i] ELSE RepeatedContact]
        len   == n + k
    IN  [i \in 1 .. len |->
            TeamPermit(names[i], names[(i % len) + 1], names[len + 1 - i])]

\* the address of the property under analysis: "12 ELM ST." and "9 Oak-Ave, LA"
TeamAddresses ==
    { <<"1", "2", " ", "E", "L", "M", " ", "S", "T", ".">>,
      <<"9", " ", "O", "a", "k", "-", "A", "v", "e", ",", " ", "L", "A">> }

\* the search log as an earlier run on "12 Elm St" left it
PriorLog ==
    << [address |-> <<"1", "2", " ", "E", "l", "m", " ", "S", "t">>,
        primary_gc_name |-> Some(<<"A", "C", "M", "E">>), primary_gc_license |-> NULL,
        primary_architect_name |-> Some(<<"B", "o", "l", "t">>),
        primary_engineer_name |-> NULL] >>

InitTeam ==
    /\ pc = "team_input"
    /\ escaped = Unset
    /\ results = Unset
    /\ url_list = Unset
    /\ last_save_ok = Unset
    /\ committed = Unset
    /\ threads = Unset
    /\ disk = Unset
    /\ log_lock = Unset
    /\ calls = Unset
    /\ report = Unset
    /\ collaborators = Unset
    /\ api = Unset
    /\ strategy_notes = Unset
    /\ \E n \in 0 .. MaxTeamPermits, k \in 0 .. MaxTeamRepeat :
         \E f \in [1 .. n -> NameSamples] :
            permits = TeamPermitList(n, f, k)
    /\ \E address \in TeamAddresses : redfin = [address |-> address]
    /\ search_log = PriorLog
    /\ earliest_permit_date = Unset
    /\ purchase_event = Unset
    /\ exit_event = Unset
    /\ permit_categories = Unset
    /\ metrics = Unset
    /\ construction_summary = Unset
    /\ cost_model = Unset
    /\ log_entry = Unset
    /\ permit_timeline = Unset
    /\ project_durations = Unset
    /\ timeline_summary = Unset
    /\ deal_fitness = Unset
    /\ team_network = Unset
    /\ repeat_players = Unset

\* run_full_comp_pipeline's team steps: the team network (line 1673), the log entry
\* and its append to the search log (lines 1772-1795)
AnalyzeTeam ==
    /\ pc = "team_input"
    /\ team_network' = ExtractTeamNetwork(permits)
    /\ log_entry' = TeamLogEntry(redfin.address, team_network')
    /\ search_log' = Append(search_log, log_entry')
    /\ pc' = "team_logged"
    /\ UNCHANGED <<redfin, earliest_permit_date, purchase_event, exit_event, 
                   permits, permit_categories, metrics, construction_summary, 
                   cost_model, permit_timeline, project_durations, 
                   timeline_summary, deal_fitness, repeat_players, strategy_notes, api, collaborators, report, calls, log_lock, disk, threads, committed, last_save_ok, url_list, results, escaped>>

\* a call of get_repeat_players() after the run
RepeatPlayers ==
    /\ pc = "team_logged"
    /\ repeat_players' = GetRepeatPlayers(search_log)
    /\ pc' = "players_ranked"
    /\ UNCHANGED <<redfin, earliest_permit_date, purchase_event, exit_event, 
                   permits, permit_categories, metrics, construction_summary, 
                   cost_model, log_entry, permit_timeline, project_durations, 
                   timeline_summary, deal_fitness, team_network, search_log, strategy_notes, api, collaborators, report, calls, log_lock, disk, threads, committed, last_save_ok, url_list, results, escaped>>

NextTeam == AnalyzeTeam \/ RepeatPlayers

SpecTeam == InitTeam /\ [][NextTeam]_vars

----------------------------------------------------------------------------
(* The pipeline over listings, permit lists and collaborator outcomes *)

MaxPipelinePermits == 2

\* a new house by ACME: applied for and approved on day 1, issued on day 1, finaled
\* on day 2; "Contractor: ACME BUILDERS 1234567"
PipeNewHouse ==
    [permit_type |-> PermitNewHouse.permit_type, work_description |-> PermitNewHouse.work_description,
     sub_type |-> PermitNewHouse.sub_type,
     contractor |-> Some(<<"A", "C", "M", "E">>), contractor_license |-> NULL,
     architect |-> NULL, architect_license |-> NULL,
     engineer |-> NULL, engineer_license |-> NULL,
     status_history |-> << [event |-> <<"A", "p", "p", "l", "i", "c", "a", "t", "i", "o", "n", " ", "S", "u", "b", "m", "i", "t", "t", "e", "d">>, date |-> Some(1)],
                           [event |-> <<"P", "l", "a", "n", " ", "C", "h", "e", "c", "k", " ", "A", "p", "p", "r", "o", "v", "e", "d">>, date |-> Some(1)],
                           [event |-> <<"I", "s", "s", "u", "e", "d">>, date |-> Some(1)],
                           [event |-> <<"P", "e", "r", "m", "i", "t", " ", "F", "i", "n", "a", "l", "e", "d">>, date |-> Some(2)] >>,
     Contractor_Info |-> Some(<<"C", "o", "n", "t", "r", "a", "c", "t", "o", "r", ":", " ", "A", "C", "M", "E", " ", "B", "U", "I", "L", "D", "E", "R", "S", " ", "1", "2", "3", "4", "5", "6", "7">>)]

\* a water heater by Bolt, issued on day 2; contractor info "N/A"
PipePlumbing ==
    [permit_type |-> PermitPlumbing.permit_type, work_description |-> PermitPlumbing.work_description,
     sub_type |-> PermitPlumbing.sub_type,
     contractor |-> Some(<<"B", "o", "l", "t">>), contractor_license |-> NULL,
     architect |-> NULL, architect_license |-> NULL,
     engineer |-> NULL, engineer_license |-> NULL,
     status_history |-> << [event |-> <<"I", "s", "s", "u", "e", "d">>, date |-> Some(2)] >>,
     Contractor_Info |-> Some(<<"N", "/", "A">>)]

\* an addition by "---", applied for on day 0; no contractor info
PipeAddition ==
    [permit_type |-> PermitAddition.permit_type, work_description |-> PermitAddition.work_description,
     sub_type |-> PermitAddition.sub_type,
     contractor |-> Some(<<"-", "-", "-">>), contractor_license |-> NULL,
     architect |-> NULL, architect_license |-> NULL,
     engineer |-> NULL, engineer_license |-> NULL,
     status_history |-> << [event |-> <<"A", "p", "p", "l", "i", "c", "a", "t", "i", "o", "n", " ", "S", "u", "b", "m", "i", "t", "t", "e", "d">>, date |-> Some(0)] >>,
     Contractor_Info |-> NULL]

\* a pool without contractor and history; contractor info "OWNER-BUILDER"
PipePool ==
    [permit_type |-> PermitPool.permit_type, work_description |-> PermitPool.work_description,
     sub_type |-> PermitPool.sub_type,
     contractor |-> NULL, contractor_license |-> NULL,
     architect |-> NULL, architect_license |-> NULL,
     engineer |-> NULL, engineer_license |-> NULL,
     status_history |-> << >>,
     Contractor_Info |-> Some(<<"O", "W", "N", "E", "R", "-", "B", "U", "I", "L", "D", "E", "R">>)]

PipelinePermits == {PipeNewHouse, PipePlumbing, PipeAddition, PipePool}

\* sale histories: none; sold on day 0 and day 2; sold twice on day 2; sold once;
\* listed only; sold, then listed
PipelineTimelines ==
    { << >>,
      << MkEvent(Some(0), "sold", Some(MinPlausiblePrice * 9)),
         MkEvent(Some(2), "sold", Some(MinPlausiblePrice * 15)) >>,
      << MkEvent(Some(2), "sold", Some(MinPlausiblePrice * 9)),
         MkEvent(Some(2), "sold", Some(MinPlausiblePrice * 15)) >>,
      << MkEvent(Some(1), "sold", Some(MinPlausiblePrice * 9)) >>,
      << MkEvent(Some(2), "listed", Some(MinPlausiblePrice * 15)) >>,
      << MkEvent(Some(1), "sold", Some(MinPlausiblePrice * 9)),
         MkEvent(Some(2), "listed", Some(MinPlausiblePrice * 15)) >> }

\* get_redfin_data's record for a parsed page (redfin scraper, line 560)
ParsedRedfin(tl, lp, facts) ==
    [source |-> "redfin_parsed_v3", address |-> Some(<<"9", " ", "O", "a", "k", " ", "A", "v", "e", ",", " ", "L", "o", "s", " ", "A", "n", "g", "e", "l", "e", "s", ",", " ", "C", "A", " ", "9", "0", "0", "0", "4">>)]
    @@ MkRedfin(tl, lp, facts)

\* get_redfin_data's record when the page could not be fetched (redfin scraper,
\* line 459)
RedfinFetchError ==
    [source |-> "redfin_fetch_error", address |-> Some(<<"U", "n", "k", "n", "o", "w", "n", " ", "a", "d", "d", "r", "e", "s", "s">>)] @@ BlankRedfin

\* get_ladbs_data's record for the permits found (permit scraper, lines 606-612)
ParsedLadbs(ps) == [source |-> "ladbs_plr_v5", permits |-> ps, note |-> "Found permits via PLR."]

\* get_ladbs_data's record without a browser (permit scraper, lines 525-531)
LadbsStub ==
    [source |-> "ladbs_stub_no_selenium", permits |-> << >>,
     note |-> "Selenium not available."]

Fetched(data) == [kind |-> "ok", data |-> data]

FetchFailures == {[kind |-> "raises", data |-> Unset], [kind |-> "invalid", data |-> Unset]}

CslbOutcomes == {"found", "not_found", "raises"}

NarrativeOutcomes == {"returns", "raises"}

InitPipeline ==
    /\ pc = "pipeline_input"
    /\ escaped = Unset
    /\ results = Unset
    /\ url_list = Unset
    /\ last_save_ok = Unset
    /\ committed = Unset
    /\ threads = Unset
    /\ disk = Unset
    /\ log_lock = Unset
    /\ \E tl \in PipelineTimelines, lp \in ListPrices, facts \in ListingFacts,
          n \in 0 .. MaxPipelinePermits :
        \E rf \in FetchFailures \cup {Fetched(RedfinFetchError),
                                      Fetched(ParsedRedfin(tl, lp, facts))},
           ps \in [1 .. n -> PipelinePermits] :
          \E lf \in FetchFailures \cup {Fetched(LadbsStub), Fetched(ParsedLadbs(ps))},
             co \in CslbOutcomes, no \in NarrativeOutcomes :
            collaborators = [redfin |-> rf, ladbs |-> lf, cslb |-> co, narrative |-> no]
    /\ search_log = << >>
    /\ calls = << >>
    /\ redfin = Unset
    /\ earliest_permit_date = Unset
    /\ purchase_event = Unset
    /\ exit_event = Unset
    /\ permits = Unset
    /\ permit_categories = Unset
    /\ metrics = Unset
    /\ construction_summary = Unset
    /\ cost_model = Unset
    /\ log_entry = Unset
    /\ permit_timeline = Unset
    /\ project_durations = Unset
    /\ timeline_summary = Unset
    /\ deal_fitness = Unset
    /\ team_network = Unset
    /\ repeat_players = Unset
    /\ strategy_notes = Unset
    /\ api = Unset
    /\ report = Unset

\* run_full_comp_pipeline(url)
RunFullCompPipeline ==
    /\ pc = "pipeline_input"
    /\ report' = PipelineReport(collaborators)
    /\ log_entry' = PipelineLogEntry(report')
    /\ search_log' = Append(search_log, log_entry')
    /\ calls' = PipelineCalls(report', collaborators)
    /\ pc' = "returned"
    /\ UNCHANGED <<redfin, earliest_permit_date, purchase_event, exit_event, 
                   permits, permit_categories, metrics, construction_summary, 
                   cost_model, permit_timeline, project_durations, 
                   timeline_summary, deal_fitness, team_network, repeat_players, 
                   strategy_notes, api, collaborators, log_lock, disk, threads, committed, last_save_ok, url_list, results, escaped>>

NextPipeline == RunFullCompPipeline

SpecPipeline == InitPipeline /\ [][NextPipeline]_vars

----------------------------------------------------------------------------
(* Narrative on its own: summarize_comp over derived fields and replies *)

\* the object a reply parses into when it holds a tactics list
ParsedNotes ==
    [tactics |-> << Line("ADU added for rental income") >>,
     risks |-> << Line("Hillside location adds grading complexity") >>,
     insights |-> << >>]

\* a reply of the narrative service: the result text and what json.loads makes of it
Reply(result_text, json, tactics, parsed) ==
    [has_key |-> TRUE, outcome |-> "response", result_text |-> result_text,
     json |-> json, tactics |-> tactics, parsed |-> parsed]

\* no API key; a request error; another error; a result that is no string; a blank
\* result; prose; a JSON array; an object without tactics; an object whose tactics
\* is a text; an object with a tactics list, plain and in a code fence
ApiReplies ==
    { [Reply(NULL, "invalid", "absent", Unset) EXCEPT !.has_key = FALSE,
                                                       !.outcome = "not_called"],
      [Reply(NULL, "invalid", "absent", Unset) EXCEPT !.outcome = "request_error"],
      [Reply(NULL, "invalid", "absent", Unset) EXCEPT !.outcome = "error"],
      Reply(NULL, "invalid", "absent", Unset),
      Reply(Some(""), "invalid", "absent", Unset),
      Reply(Some("Here is my analysis of the property."), "invalid", "absent", Unset),
      Reply(Some("[1, 2]"), "array", "absent", Unset),
      Reply(Some("{risks: []}"), "object", "absent", [risks |-> << >>]),
      Reply(Some("{tactics: ADU}"), "object", "text", [tactics |-> "ADU"]),
      Reply(Some("{tactics: [..], risks: [..], insights: []}"), "object", "list",
            ParsedNotes),
      Reply(Some("(fence) {tactics: [..], risks: [..], insights: []} (fence)"), "object",
            "list", ParsedNotes) }

\* the derived figures the fallback quotes: none; a strong return on a quick hold;
\* a moderate return on a long hold
NarrativeFigures ==
    { <<NULL, NULL, NULL>>, <<Some(6667), Some(200000), Some(300)>>,
      <<Some(1000), Some(15000), Some(600)>> }

\* the permits of the analysed property: none, or one permit of the vocabulary by
\* an owner-builder
NarrativePermits ==
    { << >> } \cup
    { << [contractor |-> Some(<<"O", "w", "n", "e", "r", "-", "B", "u", "i", "l", "d", "e", "r">>), contractor_license |-> NULL,
          architect |-> NULL, architect_license |-> NULL,
          engineer |-> NULL, engineer_license |-> NULL] @@ p >> : p \in PermitVocabulary }

InitNarrative ==
    /\ pc = "narrative_input"
    /\ escaped = Unset
    /\ results = Unset
    /\ url_list = Unset
    /\ last_save_ok = Unset
    /\ committed = Unset
    /\ threads = Unset
    /\ disk = Unset
    /\ log_lock = Unset
    /\ api \in ApiReplies
    /\ \E f \in NarrativeFigures : metrics = MetricsWithFigures(f[1], f[2], f[3])
    /\ \E ps \in NarrativePermits :
          /\ permit_categories = CategorizePermits(Classified(ps))
          /\ team_network = ExtractTeamNetwork(ps)
    /\ construction_summary = BuildConstructionSummary(metrics, permit_categories)
    /\ redfin = Unset
    /\ earliest_permit_date = Unset
    /\ purchase_event = Unset
    /\ exit_event = Unset
    /\ permits = Unset
    /\ cost_model = Unset
    /\ log_entry = Unset
    /\ permit_timeline = Unset
    /\ project_durations = Unset
    /\ timeline_summary = Unset
    /\ deal_fitness = Unset
    /\ search_log = Unset
    /\ repeat_players = Unset
    /\ strategy_notes = Unset
    /\ collaborators = Unset
    /\ report = Unset
    /\ calls = Unset

\* the derived fields handed to summarize_comp (lines 1708-1716 of the pipeline)
CombinedData ==
    [metrics |-> metrics, permit_categories |-> permit_categories,
     construction_summary |-> construction_summary, team_network |-> team_network]

\* summarize_comp(combined_data)
Summarize ==
    /\ pc = "narrative_input"
    /\ strategy_notes' = SummarizeComp(CombinedData, api)
    /\ pc' = "summarized"
    /\ UNCHANGED <<redfin, earliest_permit_date, purchase_event, exit_event, 
                   permits, permit_categories, metrics, construction_summary, 
                   cost_model, log_entry, permit_timeline, project_durations, 
                   timeline_summary, deal_fitness, team_network, search_log, 
                   repeat_players, api, collaborators, report, calls, log_lock, disk, threads, committed, last_save_ok, url_list, results, escaped>>

NextNarrative == Summarize

SpecNarrative == InitNarrative /\ [][NextNarrative]_vars

----------------------------------------------------------------------------
(* The search log under concurrent requests: append_to_search_log,            *)
(* get_search_log and get_repeat_players called from several request threads. *)
(* Each statement inside a `with _search_log_lock:` block is a step of its    *)
(* own, so that the steps of different threads interleave wherever the lock   *)
(* lets them.                                                                 *)

MaxLogThreads == 2

MaxLogOps == 3

LogThreads == 1 .. MaxLogThreads

CanAcquire_NoLock(holder) == TRUE

\* `with _search_log_lock:` blocks until no thread holds the lock
CanAcquire(holder) == holder = NULL

AppendEntry_AtFront(log, entry) == << entry >> \o log

\* line 84: _search_log.append(entry)
AppendEntry(log, entry) == Append(log, entry)

ListCopy_Alias(log) == [alias |-> TRUE, value |-> log]

\* line 91: list(_search_log), a new list with the entries of the log; a result is
\* the list object returned: either _search_log itself (alias) or a list of its own
ListCopy(log) == [alias |-> FALSE, value |-> log]

\* the entries a caller finds in a returned list, given the log as it is now
Observed(result, log) == IF result.alias THEN log ELSE result.value

\* the log entries two runs write: the same contractor at two addresses; the
\* timestamp is the thread and the number of its operation
LogEntrySamples(stamp) ==
    { [timestamp |-> stamp, address |-> <<"1", "2", " ", "E", "L", "M", " ", "S", "T", ".">>,
       primary_gc_name |-> Some(<<"A", "C", "M", "E">>), primary_gc_license |-> NULL,
       primary_architect_name |-> NULL, primary_engineer_name |-> NULL],
      [timestamp |-> stamp, address |-> <<"9", " ", "O", "a", "k", "-", "A", "v", "e", ",", " ", "L", "A">>,
       primary_gc_name |-> Some(<<"A", "C", "M", "E">>), primary_gc_license |-> NULL,
       primary_architect_name |-> Some(<<"B", "o", "l", "t">>), primary_engineer_name |-> NULL] }

\* the log file at startup: absent, or left by an earlier process
StartupLogs ==
    { << >>, << [timestamp |-> << 0, 0 >>] @@ PriorLog[1] >> }

\* a thread between two operations
IdleThread ==
    [op |-> "idle", pc |-> "idle", ops |-> 0, entry |-> NULL, buffer |-> << >>,
     save_ok |-> TRUE, result |-> NULL, seen_log |-> << >>,
     players |-> NULL, seen_players |-> << >>, runs |-> << >>]

\* lines 57-66 and 176: _load_search_log() at import
InitLog ==
    /\ pc = "serving"
    /\ escaped = Unset
    /\ results = Unset
    /\ url_list = Unset
    /\ search_log \in StartupLogs
    /\ disk = [content |-> search_log, intact |-> TRUE]
    /\ committed = search_log
    /\ last_save_ok = TRUE
    /\ log_lock = NULL
    /\ threads = [t \in LogThreads |-> IdleThread]
    /\ redfin = Unset
    /\ earliest_permit_date = Unset
    /\ purchase_event = Unset
    /\ exit_event = Unset
    /\ permits = Unset
    /\ permit_categories = Unset
    /\ metrics = Unset
    /\ construction_summary = Unset
    /\ cost_model = Unset
    /\ log_entry = Unset
    /\ permit_timeline = Unset
    /\ project_durations = Unset
    /\ timeline_summary = Unset
    /\ deal_fitness = Unset
    /\ team_network = Unset
    /\ repeat_players = Unset
    /\ strategy_notes = Unset
    /\ api = Unset
    /\ collaborators = Unset
    /\ report = Unset
    /\ calls = Unset

RECURSIVE OpsStarted(_)
\* the number of operations the first n threads have started: the requests served
OpsStarted(n) == IF n = 0 THEN 0 ELSE threads[n].ops + OpsStarted(n - 1)

\* a run of the pipeline in thread t raises before it reaches the append (line
\* 1585 is outside every try block)
RunRaises(t) ==
    /\ threads[t].pc = "idle" /\ OpsStarted(MaxLogThreads) < MaxLogOps
    /\ threads' = [threads EXCEPT
                     ![t].ops = @ + 1,
                     ![t].runs = Append(@, [id |-> << t, threads[t].ops + 1 >>,
                                            outcome |-> "raised", saved |-> FALSE])]
    /\ UNCHANGED <<pc, search_log, log_lock, disk, committed, last_save_ok>>
    /\ UNCHANGED <<redfin, earliest_permit_date, purchase_event, exit_event,
                   permits, permit_categories, metrics, construction_summary,
                   cost_model, log_entry, permit_timeline, project_durations,
                   timeline_summary, deal_fitness, team_network, repeat_players,
                   strategy_notes, api, collaborators, report, calls, url_list, results, escaped>>

\* a run of the pipeline in thread t reaches line 1795: append_to_search_log(log_entry)
RunReachesAppend(t) ==
    /\ threads[t].pc = "idle" /\ OpsStarted(MaxLogThreads) < MaxLogOps
    /\ \E entry \in LogEntrySamples(<< t, threads[t].ops + 1 >>) :
          threads' = [threads EXCEPT ![t].op = "append_to_search_log",
                                     ![t].pc = "acquire",
                                     ![t].ops = @ + 1,
                                     ![t].entry = Some(entry)]
    /\ UNCHANGED <<pc, search_log, log_lock, disk, committed, last_save_ok>>
    /\ UNCHANGED <<redfin, earliest_permit_date, purchase_event, exit_event,
                   permits, permit_categories, metrics, construction_summary,
                   cost_model, log_entry, permit_timeline, project_durations,
                   timeline_summary, deal_fitness, team_network, repeat_players,
                   strategy_notes, api, collaborators, report, calls, url_list, results, escaped>>

\* thread t calls get_search_log() or get_repeat_players()
CallRead(t) ==
    /\ threads[t].pc = "idle" /\ OpsStarted(MaxLogThreads) < MaxLogOps
    /\ \E op \in {"get_search_log", "get_repeat_players"} :
          threads' = [threads EXCEPT ![t].op = op, ![t].pc = "acquire", ![t].ops = @ + 1]
    /\ UNCHANGED <<pc, search_log, log_lock, disk, committed, last_save_ok>>
    /\ UNCHANGED <<redfin, earliest_permit_date, purchase_event, exit_event,
                   permits, permit_categories, metrics, construction_summary,
                   cost_model, log_entry, permit_timeline, project_durations,
                   timeline_summary, deal_fitness, team_network, repeat_players,
                   strategy_notes, api, collaborators, report, calls, url_list, results, escaped>>

\* lines 83, 90, 102: `with _search_log_lock:` is entered
Acquire(t) ==
    /\ threads[t].pc = "acquire"
    /\ CanAcquire(log_lock)
    /\ log_lock' = Some(t)
    /\ threads' = [threads EXCEPT ![t].pc =
                      IF threads[t].op = "append_to_search_log" THEN "append"
                      ELSE IF threads[t].op = "get_search_log" THEN "copy"
                      ELSE "rank"]
    /\ UNCHANGED <<pc, search_log, disk, committed, last_save_ok>>
    /\ UNCHANGED <<redfin, earliest_permit_date, purchase_event, exit_event,
                   permits, permit_categories, metrics, construction_summary,
                   cost_model, log_entry, permit_timeline, project_durations,
                   timeline_summary, deal_fitness, team_network, repeat_players,
                   strategy_notes, api, collaborators, report, calls, url_list, results, escaped>>

\* line 84
AppendInMemory(t) ==
    /\ threads[t].pc = "append"
    /\ search_log' = AppendEntry(search_log, Get(threads[t].entry))
    /\ threads' = [threads EXCEPT ![t].pc = "save"]
    /\ UNCHANGED <<pc, log_lock, disk, committed, last_save_ok>>
    /\ UNCHANGED <<redfin, earliest_permit_date, purchase_event, exit_event,
                   permits, permit_categories, metrics, construction_summary,
                   cost_model, log_entry, permit_timeline, project_durations,
                   timeline_summary, deal_fitness, team_network, repeat_players,
                   strategy_notes, api, collaborators, report, calls, url_list, results, escaped>>

\* lines 74-75: the directory or the file cannot be opened, and the exception is
\* caught (lines 77-78): the file stays as it was
SaveCannotOpen(t) ==
    /\ threads[t].pc = "save"
    /\ last_save_ok' = FALSE
    /\ threads' = [threads EXCEPT ![t].pc = "release", ![t].save_ok = FALSE]
    /\ UNCHANGED <<pc, search_log, log_lock, disk, committed>>
    /\ UNCHANGED <<redfin, earliest_permit_date, purchase_event, exit_event,
                   permits, permit_categories, metrics, construction_summary,
                   cost_model, log_entry, permit_timeline, project_durations,
                   timeline_summary, deal_fitness, team_network, repeat_players,
                   strategy_notes, api, collaborators, report, calls, url_list, results, escaped>>

\* lines 75-76: the file is opened for writing and json.dump reads the log
SaveSerializes(t) ==
    /\ threads[t].pc = "save"
    /\ threads' = [threads EXCEPT ![t].pc = "write", ![t].buffer = search_log]
    /\ UNCHANGED <<pc, search_log, log_lock, disk, committed, last_save_ok>>
    /\ UNCHANGED <<redfin, earliest_permit_date, purchase_event, exit_event,
                   permits, permit_categories, metrics, construction_summary,
                   cost_model, log_entry, permit_timeline, project_durations,
                   timeline_summary, deal_fitness, team_network, repeat_players,
                   strategy_notes, api, collaborators, report, calls, url_list, results, escaped>>

\* line 76: the text reaches the file, or the write fails half way and leaves a
\* truncated file (the exception is caught, lines 77-78)
SaveWrites(t) ==
    /\ threads[t].pc = "write"
    /\ \E ok \in BOOLEAN :
          /\ disk' = IF ok THEN [content |-> threads[t].buffer, intact |-> TRUE]
                     ELSE [content |-> << >>, intact |-> FALSE]
          /\ last_save_ok' = ok
          /\ threads' = [threads EXCEPT ![t].pc = "release", ![t].buffer = << >>,
                                        ![t].save_ok = ok]
    /\ UNCHANGED <<pc, search_log, log_lock, committed>>
    /\ UNCHANGED <<redfin, earliest_permit_date, purchase_event, exit_event,
                   permits, permit_categories, metrics, construction_summary,
                   cost_model, log_entry, permit_timeline, project_durations,
                   timeline_summary, deal_fitness, team_network, repeat_players,
                   strategy_notes, api, collaborators, report, calls, url_list, results, escaped>>

\* line 91: return list(_search_log)
CopyLog(t) ==
    /\ threads[t].pc = "copy"
    /\ threads' = [threads EXCEPT ![t].pc = "release",
                                  ![t].result = Some(ListCopy(search_log)),
                                  ![t].seen_log = committed]
    /\ UNCHANGED <<pc, search_log, log_lock, disk, committed, last_save_ok>>
    /\ UNCHANGED <<redfin, earliest_permit_date, purchase_event, exit_event,
                   permits, permit_categories, metrics, construction_summary,
                   cost_model, log_entry, permit_timeline, project_durations,
                   timeline_summary, deal_fitness, team_network, repeat_players,
                   strategy_notes, api, collaborators, report, calls, url_list, results, escaped>>

\* lines 103-142: the three maps and the three rankings
RankPlayers(t) ==
    /\ threads[t].pc = "rank"
    /\ threads' = [threads EXCEPT ![t].pc = "release",
                                  ![t].players = Some(GetRepeatPlayers(search_log)),
                                  ![t].seen_players = committed]
    /\ UNCHANGED <<pc, search_log, log_lock, disk, committed, last_save_ok>>
    /\ UNCHANGED <<redfin, earliest_permit_date, purchase_event, exit_event,
                   permits, permit_categories, metrics, construction_summary,
                   cost_model, log_entry, permit_timeline, project_durations,
                   timeline_summary, deal_fitness, team_network, repeat_players,
                   strategy_notes, api, collaborators, report, calls, url_list, results, escaped>>

\* the `with` block is left and the call returns; after append_to_search_log the
\* run returns its report (line 1797)
Release(t) ==
    /\ threads[t].pc = "release"
    /\ log_lock' = NULL
    /\ IF threads[t].op = "append_to_search_log"
       THEN /\ committed' = search_log
            /\ threads' = [threads EXCEPT
                             ![t].op = "idle", ![t].pc = "idle", ![t].entry = NULL,
                             ![t].runs = Append(@, [id |-> Get(threads[t].entry).timestamp,
                                                    outcome |-> "returned",
                                                    saved |-> threads[t].save_ok])]
       ELSE /\ committed' = committed
            /\ threads' = [threads EXCEPT ![t].op = "idle", ![t].pc = "idle"]
    /\ UNCHANGED <<pc, search_log, disk, last_save_ok>>
    /\ UNCHANGED <<redfin, earliest_permit_date, purchase_event, exit_event,
                   permits, permit_categories, metrics, construction_summary,
                   cost_model, log_entry, permit_timeline, project_durations,
                   timeline_summary, deal_fitness, team_network, repeat_players,
                   strategy_notes, api, collaborators, report, calls, url_list, results, escaped>>

NextLog ==
    \E t \in LogThreads :
        \/ RunRaises(t) \/ RunReachesAppend(t) \/ CallRead(t)
        \/ Acquire(t) \/ AppendInMemory(t)
        \/ SaveCannotOpen(t) \/ SaveSerializes(t) \/ SaveWrites(t)
        \/ CopyLog(t) \/ RankPlayers(t) \/ Release(t)

SpecLog == InitLog /\ [][NextLog]_vars

----------------------------------------------------------------------------
(* A batch of runs: run_multiple over a list of URLs *)

MaxUrls == 3

\* the URLs of a batch; a list may name one URL twice
UrlNames == {"https://www.redfin.com/CA/Los-Angeles/home/1",
             "https://www.redfin.com/CA/Los-Angeles/home/2"}

\* the exceptions a statement of the run outside its try blocks raises: the log
\* directory cannot be made (line 1585), a derivation meets a value of a type it
\* does not expect (lines 1636-1720)
RunExceptions == {"OSError", "TypeError"}

ExceptCatches_OnlyOsError(exception) == exception = "OSError"

\* line 1839: except Exception, which catches every exception the run raises
ExceptCatches(exception) == exception \in RunExceptions

\* what a run meets: both sources fail inside their try blocks; a house sold twice
\* with its permits
BatchCollaborators ==
    { [redfin |-> [kind |-> "raises", data |-> Unset],
       ladbs |-> [kind |-> "raises", data |-> Unset],
       cslb |-> "not_found", narrative |-> "raises"],
      [redfin |-> Fetched(ParsedRedfin(<< MkEvent(Some(0), "sold", Some(MinPlausiblePrice * 9)),
                                          MkEvent(Some(2), "sold", Some(MinPlausiblePrice * 15)) >>,
                                       NULL,
                                       [public_building_sf |-> Some(1000),
                                        building_sf |-> Some(2500), lot_sf |-> Some(5000)])),
       ladbs |-> Fetched(ParsedLadbs(<< PipeAddition >>)),
       cslb |-> "not_found", narrative |-> "returns"] }

\* one URL of the batch with what its run does: return, or raise an exception
BatchUrls ==
    { [url |-> u, raises |-> NULL, collaborators |-> c] :
        u \in UrlNames, c \in BatchCollaborators }
    \cup { [url |-> u, raises |-> Some(e), collaborators |-> Unset] :
             u \in UrlNames, e \in RunExceptions }

\* lines 1721-1722: the report of a run carries its URL
UrlReport(u) == [url |-> u.url] @@ PipelineReport(u.collaborators)

\* lines 1840-1863: the record for a URL whose run raised (the quotes, the ellipsis
\* and the dashes of its display texts are written in ASCII)
ErrorPlaceholder(url) ==
    [address |-> "Error processing property", url |-> url,
     summary_markdown |-> "<p class=error-message>An error occurred...</p>",
     headline_metrics |-> NULL,
     metrics |-> [purchase_price |-> NULL, purchase_date |-> NULL, exit_price |-> NULL,
                  exit_date |-> NULL, spread |-> NULL, roi_pct |-> NULL,
                  hold_days |-> NULL],
     current_summary |-> "-", public_record_summary |-> "-", lot_summary |-> "-",
     permit_summary |-> "-", permit_count |-> 0,
     redfin |-> [timeline |-> << >>], ladbs |-> [permits |-> << >>],
     project_contacts |-> NULL, cslb_contractor |-> NULL]

\* line 1835: results = []
InitMultiple ==
    /\ pc = "multiple_loop"
    /\ \E n \in 0 .. MaxUrls : url_list \in [1 .. n -> BatchUrls]
    /\ results = << >>
    /\ escaped = NULL
    /\ search_log = << >>
    /\ redfin = Unset
    /\ earliest_permit_date = Unset
    /\ purchase_event = Unset
    /\ exit_event = Unset
    /\ permits = Unset
    /\ permit_categories = Unset
    /\ metrics = Unset
    /\ construction_summary = Unset
    /\ cost_model = Unset
    /\ log_entry = Unset
    /\ permit_timeline = Unset
    /\ project_durations = Unset
    /\ timeline_summary = Unset
    /\ deal_fitness = Unset
    /\ team_network = Unset
    /\ repeat_players = Unset
    /\ strategy_notes = Unset
    /\ api = Unset
    /\ collaborators = Unset
    /\ report = Unset
    /\ calls = Unset
    /\ log_lock = Unset
    /\ disk = Unset
    /\ threads = Unset
    /\ committed = Unset
    /\ last_save_ok = Unset

\* lines 1836-1864: one turn of the loop, for the next URL
RunOneUrl ==
    /\ pc = "multiple_loop"
    /\ Len(results) < Len(url_list)
    /\ LET u == url_list[Len(results) + 1]
       IN  IF u.raises = NULL
           THEN /\ results' = Append(results, UrlReport(u))
                /\ search_log' = Append(search_log, PipelineLogEntry(UrlReport(u)))
                /\ UNCHANGED <<pc, escaped>>
           ELSE IF ExceptCatches(Get(u.raises))
           THEN /\ results' = Append(results, ErrorPlaceholder(u.url))
                /\ UNCHANGED <<pc, escaped, search_log>>
           ELSE /\ escaped' = u.raises
                /\ pc' = "raised"
                /\ UNCHANGED <<results, search_log>>
    /\ UNCHANGED url_list
    /\ UNCHANGED <<redfin, earliest_permit_date, purchase_event, exit_event,
                   permits, permit_categories, metrics, construction_summary,
                   cost_model, log_entry, permit_timeline, project_durations,
                   timeline_summary, deal_fitness, team_network, repeat_players,
                   strategy_notes, api, collaborators, report, calls, log_lock,
                   disk, threads, committed, last_save_ok>>

\* line 1865: return results
ReturnResults ==
    /\ pc = "multiple_loop"
    /\ Len(results) = Len(url_list)
    /\ pc' = "returned"
    /\ UNCHANGED <<url_list, results, escaped, search_log>>
    /\ UNCHANGED <<redfin, earliest_permit_date, purchase_event, exit_event,
                   permits, permit_categories, metrics, construction_summary,
                   cost_model, log_entry, permit_timeline, project_durations,
                   timeline_summary, deal_fitness, team_network, repeat_players,
                   strategy_notes, api, collaborators, report, calls, log_lock,
                   disk, threads, committed, last_save_ok>>

NextMultiple == RunOneUrl \/ ReturnResults

SpecMultiple == InitMultiple /\ [][NextMultiple]_vars

----------------------------------------------------------------------------
(* Chronological order of source rows: by date, ties by source order *)

SoldIdx(tl) == {i \in 1 .. Len(tl) : tl[i].event = "sold"}

ListingIdx(tl) == {i \in 1 .. Len(tl) : tl[i].event \in {"listed", "active", "pending"}}

Earlier(tl, i, j) ==
    \/ Get(tl[i].date) < Get(tl[j].date)
    \/ Get(tl[i].date) = Get(tl[j].date) /\ i < j

LatestIdx(tl, S) == CHOOSE i \in S : \A j \in S \ {i} : Earlier(tl, j, i)

SecondLatestIdx(tl, S) == LatestIdx(tl, S \ {LatestIdx(tl, S)})

ExampleTimeline ==
    << MkEvent(Some(Ordinal(2020, 1, 1)), "sold", Some(900000)),
       MkEvent(Some(Ordinal(2021, 1, 1)), "sold", Some(1500000)) >>

\* C1: a purchase is returned iff the timeline holds at least two sold events and
\* either no earliest permit date is known or the second-latest sold event is dated
\* on or before it; the purchase is then exactly the second-latest sold event; one
\* sold event alone never gives a purchase; sold 2020-01-01 and 2021-01-01 give the
\* 2020-01-01 sale with permits from 2020-06-01 and no purchase with permits from
\* 2019-12-01.
C1_PurchaseRule ==
    pc = "selected" =>
        LET tl == redfin.timeline
            S  == SoldIdx(tl)
        IN  /\ (purchase_event # NULL) <=>
                   /\ Cardinality(S) >= 2
                   /\ \/ earliest_permit_date = NULL
                      \/ Get(tl[SecondLatestIdx(tl, S)].date) <= Get(earliest_permit_date)
            /\ purchase_event # NULL => Get(purchase_event) = tl[SecondLatestIdx(tl, S)]
            /\ Cardinality(S) = 1 => purchase_event = NULL
            /\ PickPurchaseAndExit(ExampleTimeline, Some(Ordinal(2020, 6, 1)))[1]
                   = Some(ExampleTimeline[1])
            /\ PickPurchaseAndExit(ExampleTimeline, Some(Ordinal(2019, 12, 1)))[1] = NULL

\* three sales on three different days, entered out of order, with a purchase
\* accepted on the very day of the earliest permit date
C1_Witness ==
    /\ pc = "selected"
    /\ Cardinality(SoldIdx(redfin.timeline)) = 3
    /\ Get(redfin.timeline[1].date) > Get(redfin.timeline[2].date)
    /\ Get(redfin.timeline[2].date) > Get(redfin.timeline[3].date)
    /\ purchase_event = Some(redfin.timeline[2])
    /\ earliest_permit_date = redfin.timeline[2].date

\* C2: the exit is the latest-dated sold event whenever any sold event exists (also
\* when a listing event is dated later); otherwise the latest-dated listed, active or
\* pending event; otherwise exit and purchase are both absent; among equal dates the
\* later source row wins.
C2_ExitRule ==
    pc = "selected" =>
        LET tl == redfin.timeline
            S  == SoldIdx(tl)
            L  == ListingIdx(tl)
        IN  /\ S # {} => exit_event = Some(tl[LatestIdx(tl, S)])
            /\ S = {} /\ L # {} =>
                   exit_event = Some(tl[LatestIdx(tl, L)]) /\ purchase_event = NULL
            /\ S = {} /\ L = {} => exit_event = NULL /\ purchase_event = NULL

\* a sale followed by a later listing, and two sales on the same day: the exit is
\* the later source row of the two sales
C2_Witness ==
    /\ pc = "selected"
    /\ Len(redfin.timeline) = 3
    /\ redfin.timeline[1].event = "sold"
    /\ redfin.timeline[2].event = "sold"
    /\ redfin.timeline[3].event = "pending"
    /\ redfin.timeline[1].date = redfin.timeline[2].date
    /\ Get(redfin.timeline[3].date) > Get(redfin.timeline[2].date)
    /\ exit_event = Some(redfin.timeline[2])

\* C3: whenever the selected purchase is absent, purchase_price, purchase_date,
\* spread, roi_pct, hold_days, spread_per_day and purchase_psf are all null, and the
\* cost model built from these metrics has total_project_cost and estimated_profit
\* null.
C3_PurchaseGating ==
    pc = "derived" /\ purchase_event = NULL =>
        /\ metrics.purchase_price = NULL
        /\ metrics.purchase_date = NULL
        /\ metrics.spread = NULL
        /\ metrics.roi_pct = NULL
        /\ metrics.hold_days = NULL
        /\ metrics.spread_per_day = NULL
        /\ metrics.purchase_psf = NULL
        /\ cost_model.total_project_cost = NULL
        /\ cost_model.estimated_profit = NULL

\* two sales whose candidate purchase post-dates the permits, with an exit price,
\* a list price and a known building area at hand
C3_Witness ==
    /\ pc = "derived"
    /\ purchase_event = NULL
    /\ Cardinality(SoldIdx(redfin.timeline)) = 2
    /\ earliest_permit_date # NULL
    /\ metrics.exit_price # NULL
    /\ metrics.list_price # NULL
    /\ metrics.building_sf_before # NULL
    /\ cost_model.hard_cost_total > LandscapeDemoAllowance
    /\ cost_model.total_project_cost = NULL

\* C4: estimated_profit is non-null iff purchase_price is non-null and at least one
\* of exit_price and list_price is non-null.
C4_ProfitGating ==
    pc = "costed" =>
        (cost_model.estimated_profit # NULL <=>
            /\ metrics.purchase_price # NULL
            /\ (metrics.exit_price # NULL \/ metrics.list_price # NULL))

\* a known purchase without exit price: the profit is estimated from the list price
C4_Witness ==
    /\ pc = "costed"
    /\ metrics.purchase_price # NULL
    /\ metrics.exit_price = NULL
    /\ metrics.list_price # NULL
    /\ cost_model.estimated_profit =
           Some(Get(metrics.list_price) - Get(cost_model.total_project_cost))

\* C5: purchase_price is null or the price of a sold event of the timeline,
\* exit_price is null or the price of the selected exit event (a sold, listed, active
\* or pending event of the timeline), list_price is the listing record's list price,
\* and the list price never takes the place of the exit price, neither in the metrics
\* nor in the flattened summary entry written to the search log.
C5_NoFabrication ==
    pc = "derived" =>
        LET tl == redfin.timeline
        IN  /\ \/ metrics.purchase_price = NULL
               \/ \E i \in SoldIdx(tl) : metrics.purchase_price = tl[i].price
            /\ \/ metrics.exit_price = NULL
               \/ /\ exit_event # NULL
                  /\ metrics.exit_price = Get(exit_event).price
                  /\ \E i \in SoldIdx(tl) \cup ListingIdx(tl) : Get(exit_event) = tl[i]
            /\ metrics.list_price = redfin.list_price
            /\ log_entry.purchase_price = metrics.purchase_price
            /\ log_entry.exit_price = metrics.exit_price

\* the stages of the summary that carry the given name
StagesNamed(name) ==
    {i \in 1 .. Len(timeline_summary.stages) : timeline_summary.stages[i].name = name}

\* the five milestone pairs: stage name, start date, end date
MilestonePairs ==
    { <<StagePurchaseToSubmit, metrics.purchase_date, permit_timeline.plans_submitted_date>>,
      <<StageSubmitToApproval, permit_timeline.plans_submitted_date,
        permit_timeline.plans_approved_date>>,
      <<StageApprovalToStart, permit_timeline.plans_approved_date,
        permit_timeline.construction_start_date>>,
      <<StageConstruction, permit_timeline.construction_start_date,
        permit_timeline.construction_completed_date>>,
      <<StageCofoToSale, permit_timeline.construction_completed_date, metrics.exit_date>> }

\* C6: every stage has days >= 0; a milestone pair whose end date precedes its start
\* date contributes no stage at all; total_days is null rather than negative.
C6_NonNegativeDurations ==
    pc = "timeline_done" =>
        /\ \A i \in 1 .. Len(timeline_summary.stages) : timeline_summary.stages[i].days >= 0
        /\ \A pair \in MilestonePairs :
               pair[2] # NULL /\ pair[3] # NULL /\ Get(pair[3]) < Get(pair[2])
                   => StagesNamed(pair[1]) = {}
        /\ timeline_summary.total_days # NULL => Get(timeline_summary.total_days) >= 0
        /\ metrics.purchase_date # NULL /\ metrics.exit_date # NULL
           /\ Get(metrics.exit_date) < Get(metrics.purchase_date)
               => timeline_summary.total_days = NULL

\* plans approved before they were submitted and an exit before the purchase, next
\* to a valid construction stage: the two bad pairs are dropped, the good one stays
C6_Witness ==
    /\ pc = "timeline_done"
    /\ metrics.purchase_date # NULL /\ metrics.exit_date # NULL
    /\ Get(metrics.exit_date) < Get(metrics.purchase_date)
    /\ permit_timeline.plans_submitted_date # NULL
    /\ permit_timeline.plans_approved_date # NULL
    /\ Get(permit_timeline.plans_approved_date) < Get(permit_timeline.plans_submitted_date)
    /\ StagesNamed(StageSubmitToApproval) = {}
    /\ StagesNamed(StageConstruction) # {}
    /\ timeline_summary.total_days = NULL

\* C7: whenever plans_approved_date and construction_start_date are both known and
\* construction start is on or after plan approval, the stage list holds the stage
\* approved -> construction start with days = start - approval, start_date the
\* approval date and end_date the construction start date; the stage is absent only
\* when an endpoint is unknown or the duration is negative.
C7_ApprovedToStartStage ==
    pc = "timeline_done" =>
        LET approved == permit_timeline.plans_approved_date
            started  == permit_timeline.construction_start_date
        IN  approved # NULL /\ started # NULL /\ Get(started) >= Get(approved) =>
                \E i \in StagesNamed(StageApprovalToStart) :
                    /\ timeline_summary.stages[i].days = Get(started) - Get(approved)
                    /\ timeline_summary.stages[i].start_date = approved
                    /\ timeline_summary.stages[i].end_date = started

\* C8: for a non-empty permit list scope_level is HEAVY when has_new_structure or
\* has_adu or building count >= 3, otherwise MEDIUM when has_addition or
\* has_major_remodel or building count >= 2 or MEP count >= 3, otherwise LIGHT; for
\* an empty list it is UNKNOWN; the single permit of type ADU described as a new
\* accessory dwelling unit gives has_adu and HEAVY.
C8_ScopeLevelTable ==
    pc = "categorized" =>
        LET c      == permit_categories
            heavy  == c.has_new_structure \/ c.has_adu \/ c.building_count >= 3
            medium == \/ c.has_addition
                      \/ c.has_major_remodel
                      \/ c.building_count >= 2
                      \/ c.mep_count >= 3
        IN  /\ (permits # << >> /\ heavy) => c.scope_level = "HEAVY"
            /\ (permits # << >> /\ ~heavy /\ medium) => c.scope_level = "MEDIUM"
            /\ (permits # << >> /\ ~heavy /\ ~medium) => c.scope_level = "LIGHT"
            /\ permits = << >> => c.scope_level = "UNKNOWN"
            /\ permits = << PermitAduNew >> => (c.has_adu /\ c.scope_level = "HEAVY")

\* the one ADU permit of the example, classified HEAVY on the ADU flag
C8_Witness ==
    /\ pc = "categorized"
    /\ permits = << PermitAduNew >>
    /\ permit_categories.has_adu
    /\ permit_categories.building_count = 1
    /\ permit_categories.scope_level = "HEAVY"

\* the keywords found in the text of each permit of the list
FoundInList == [i \in 1 .. Len(permits) |-> KeywordsIn(permits[i])]

\* C9: every permit is counted in exactly one of supplement, demolition, MEP,
\* building, other, by the first keyword set that matches in this order; the five
\* counts add up to the number of permits; a permit matching both supplement and
\* building keywords counts as a supplement only; the pool, grading/hillside, methane
\* and fire-sprinkler flags are set from any permit whatever its category.
C9_OneCategoryPerPermit ==
    pc = "categorized" =>
        LET c     == permit_categories
            found == FoundInList
            Matching(kws) == {i \in 1 .. Len(permits) : found[i] \cap kws # {}}
            supp  == Matching(SupplementKeywords)
            demo  == Matching(DemoKeywords) \ supp
            mep   == Matching(MepKeywords) \ (supp \cup demo)
            bldg  == Matching(BuildingKeywords) \ (supp \cup demo \cup mep)
        IN  /\ c.supplement_count = Cardinality(supp)
            /\ c.demo_count = Cardinality(demo)
            /\ c.mep_count = Cardinality(mep)
            /\ c.building_count = Cardinality(bldg)
            /\ c.other_count = Len(permits) - Cardinality(supp \cup demo \cup mep \cup bldg)
            /\ c.supplement_count + c.demo_count + c.mep_count + c.building_count
                   + c.other_count = Len(permits)
            /\ Matching(SupplementKeywords) \cap Matching(BuildingKeywords) # {}
                   => c.supplement_count >= 1
            /\ c.has_pool <=> (Matching(PoolKeywords) # {})
            /\ c.has_grading_or_hillside <=> (Matching(GradingKeywords) # {})
            /\ c.has_methane <=> (Matching(MethaneKeywords) # {})
            /\ c.has_fire_sprinklers <=> (Matching(SprinklerKeywords) # {})

\* a supplement that also matches building keywords, alone with a pool permit and a
\* methane permit: no building is counted, and both flags are set from permits of
\* the categories other and MEP
C9_Witness ==
    /\ pc = "categorized"
    /\ Len(permits) = 3
    /\ \E i \in 1 .. 3 : /\ FoundInList[i] \cap SupplementKeywords # {}
                          /\ FoundInList[i] \cap BuildingKeywords # {}
    /\ permit_categories.supplement_count = 1
    /\ permit_categories.building_count = 0
    /\ permit_categories.other_count = 1
    /\ permit_categories.mep_count = 1
    /\ permit_categories.has_pool
    /\ permit_categories.has_methane

\* C10: for a non-empty permit list the points are (3 if total >= 8, else 2 if >= 5,
\* else 1 if >= 3) + (2 if supplements >= 3, else 1 if >= 1) + 1 for pool + 1 for
\* methane + 1 for fire sprinklers + 2 for grading/hillside; the score is HIGH from 5
\* points, MEDIUM from 2, else LOW; it is UNKNOWN exactly when the list is empty.
C10_ComplexityScore ==
    pc = "categorized" =>
        LET c     == permit_categories
            total == Len(permits)
            tier  == IF total >= 8 THEN 3 ELSE IF total >= 5 THEN 2
                     ELSE IF total >= 3 THEN 1 ELSE 0
            supp  == IF c.supplement_count >= 3 THEN 2
                     ELSE IF c.supplement_count >= 1 THEN 1 ELSE 0
            sum   == tier + supp + (IF c.has_pool THEN 1 ELSE 0)
                     + (IF c.has_methane THEN 1 ELSE 0)
                     + (IF c.has_fire_sprinklers THEN 1 ELSE 0)
                     + (IF c.has_grading_or_hillside THEN 2 ELSE 0)
            label == IF sum >= 5 THEN "HIGH" ELSE IF sum >= 2 THEN "MEDIUM" ELSE "LOW"
        IN  /\ permits # << >> =>
                   (c.complexity_points = sum /\ c.permit_complexity_score = label)
            /\ (c.permit_complexity_score = "UNKNOWN") <=> (permits = << >>)

\* eight permits, one of them for grading and none a supplement: three points for
\* the count and two for the grading make the score HIGH
C10_Witness ==
    /\ pc = "categorized"
    /\ Len(permits) = 8
    /\ permit_categories.has_grading_or_hillside
    /\ permit_categories.supplement_count = 0
    /\ ~permit_categories.has_pool
    /\ ~permit_categories.has_methane
    /\ ~permit_categories.has_fire_sprinklers
    /\ permit_categories.complexity_points = 5
    /\ permit_categories.permit_complexity_score = "HIGH"

\* C11: the score is the sum of four sub-scores: ROI (>= 50/30/20/10/0 percent gives
\* 30/25/20/15/10, negative or unknown 0), permit complexity (LOW 25, MEDIUM 15,
\* HIGH 5, UNKNOWN 10), velocity (spread per day >= 3000/2000/1000/500 gives
\* 25/20/15/10, positive below 500 gives 5, non-positive or unknown 0) and hold in
\* 0..20; the score is in 0..100; the grade is A from 85, B from 70, C from 55, D
\* from 40, else F.
C11_FitnessComposition ==
    pc = "scored" =>
        LET c   == deal_fitness.components
            roi == metrics.roi_pct
            spd == metrics.spread_per_day
            lab == permit_categories.permit_complexity_score
            s   == deal_fitness.score
        IN  /\ (roi = NULL) => c.roi_score = 0
            /\ (roi # NULL /\ Get(roi) < 0) => c.roi_score = 0
            /\ (roi # NULL /\ Get(roi) >= 0 /\ Get(roi) < 1000) => c.roi_score = 10
            /\ (roi # NULL /\ Get(roi) >= 1000 /\ Get(roi) < 2000) => c.roi_score = 15
            /\ (roi # NULL /\ Get(roi) >= 2000 /\ Get(roi) < 3000) => c.roi_score = 20
            /\ (roi # NULL /\ Get(roi) >= 3000 /\ Get(roi) < 5000) => c.roi_score = 25
            /\ (roi # NULL /\ Get(roi) >= 5000) => c.roi_score = 30
            /\ (lab = "LOW") => c.complexity_score = 25
            /\ (lab = "MEDIUM") => c.complexity_score = 15
            /\ (lab = "HIGH") => c.complexity_score = 5
            /\ (lab = "UNKNOWN") => c.complexity_score = 10
            /\ (spd = NULL) => c.mot_score = 0
            /\ (spd # NULL /\ Get(spd) <= 0) => c.mot_score = 0
            /\ (spd # NULL /\ Get(spd) > 0 /\ Get(spd) < 50000) => c.mot_score = 5
            /\ (spd # NULL /\ Get(spd) >= 50000 /\ Get(spd) < 100000) => c.mot_score = 10
            /\ (spd # NULL /\ Get(spd) >= 100000 /\ Get(spd) < 200000) => c.mot_score = 15
            /\ (spd # NULL /\ Get(spd) >= 200000 /\ Get(spd) < 300000) => c.mot_score = 20
            /\ (spd # NULL /\ Get(spd) >= 300000) => c.mot_score = 25
            /\ c.hold_score \in 0 .. 20
            /\ s = c.roi_score + c.complexity_score + c.mot_score + c.hold_score
            /\ s \in 0 .. 100
            /\ deal_fitness.grade =
                   (IF s >= 85 THEN "A" ELSE IF s >= 70 THEN "B"
                    ELSE IF s >= 55 THEN "C" ELSE IF s >= 40 THEN "D" ELSE "F")

\* a loss one hundredth of a percent below zero on a low-complexity job: the ROI
\* part is 0 and the 25 complexity points alone give grade F
C11_Witness ==
    /\ pc = "scored"
    /\ metrics.roi_pct = Some(-1)
    /\ metrics.spread_per_day # NULL
    /\ permit_categories.permit_complexity_score = "LOW"
    /\ deal_fitness.components.roi_score = 0
    /\ deal_fitness.components.mot_score = 0
    /\ deal_fitness.score = 25 + deal_fitness.components.hold_score
    /\ deal_fitness.grade = "F"

\* C12: for a known hold of h days the hold sub-score is 20 when h <= 180, 15 when
\* 180 < h <= 365, 10 when 365 < h <= 548, 5 when 548 < h <= 730 and 0 when h > 730;
\* it is 0 for an unknown hold; a known hold of 0 days scores 20.
C12_HoldScore ==
    pc = "scored" =>
        LET h  == metrics.hold_days
            hs == deal_fitness.components.hold_score
        IN  /\ (h = NULL) => hs = 0
            /\ (h # NULL /\ Get(h) <= 180) => hs = 20
            /\ (h # NULL /\ Get(h) > 180 /\ Get(h) <= 365) => hs = 15
            /\ (h # NULL /\ Get(h) > 365 /\ Get(h) <= 548) => hs = 10
            /\ (h # NULL /\ Get(h) > 548 /\ Get(h) <= 730) => hs = 5
            /\ (h # NULL /\ Get(h) > 730) => hs = 0

\* Julian day number of a Gregorian date, by the closed formula
JulianDay(date) ==
    LET a == IF date[2] <= 2 THEN 1 ELSE 0
        y == date[1] + 4800 - a
        m == date[2] + 12 * a - 3
    IN  date[3] + ((153 * m + 2) \div 5) + 365 * y + (y \div 4) - (y \div 100)
            + (y \div 400) - 32045

\* the day ordinals of the dates differ by the number of calendar days between them
OrdinalsCountDays ==
    \A d \in ScenarioDates :
        OrdinalOf(d) - OrdinalOf(<<2019, 1, 1>>) = JulianDay(d) - JulianDay(<<2019, 1, 1>>)

ScenarioA == TwoSales(<<2019, 3, 1>>, 900000, <<2024, 7, 15>>, 1500000)

\* the figures of Scenario A apart from the hold
ScenarioAFigures ==
    /\ metrics.purchase_date = Some(OrdinalOf(<<2019, 3, 1>>))
    /\ metrics.purchase_price = Some(900000)
    /\ metrics.exit_date = Some(OrdinalOf(<<2024, 7, 15>>))
    /\ metrics.exit_price = Some(1500000)
    /\ metrics.spread = Some(600000)
    /\ metrics.roi_pct = Some(6667)

\* C13 as amended: for the timeline [sold 2019-03-01 at 900000, sold 2024-07-15 at
\* 1500000] with no permits, purchase = 2019-03-01 / 900000, exit = 2024-07-15 /
\* 1500000, spread = 600000, roi_pct = 66.67 and hold_days = 1963; hold_days is the
\* number of calendar days from the purchase date to the exit date.
C13_ScenarioA_Amended ==
    pc = "derived" =>
        /\ OrdinalsCountDays
        /\ (metrics.purchase_date # NULL /\ metrics.exit_date # NULL) =>
               metrics.hold_days = Some(Get(metrics.exit_date) - Get(metrics.purchase_date))
        /\ redfin.timeline = ScenarioA =>
               (ScenarioAFigures /\ metrics.hold_days = Some(1963))

\* Scenario A itself, derived
C13_Witness ==
    /\ pc = "derived"
    /\ redfin.timeline = ScenarioA
    /\ purchase_event = Some(ScenarioA[1])
    /\ exit_event = Some(ScenarioA[2])
    /\ metrics.hold_days = Some(JulianDay(<<2024, 7, 15>>) - JulianDay(<<2019, 3, 1>>))

\* C13 as stated: the same figures with hold_days = 1964.
C13_ScenarioA ==
    (pc = "derived" /\ redfin.timeline = ScenarioA) =>
        (ScenarioAFigures /\ metrics.hold_days = Some(1964))

----------------------------------------------------------------------------
(* Team network *)

\* per permit, the name it gives for the role with surrounding blanks removed, or
\* NULL where it gives no valid name
RoleKeys(ps, name_key) ==
    [i \in 1 .. Len(ps) |->
        IF IsValidName(ps[i][name_key]) THEN Some(Strip(Get(ps[i][name_key]))) ELSE NULL]

RECURSIVE SumCounts(_)
SumCounts(ranked) ==
    IF ranked = << >> THEN 0 ELSE Head(ranked).count + SumCounts(Tail(ranked))

\* primary and others are the ranking of the names the permits give for the role
RankedRight(ps, name_key, primary, others) ==
    LET ranked == IF primary = NULL THEN others ELSE << Get(primary) >> \o others
        keys   == RoleKeys(ps, name_key)
        NamedBy(nm) == {i \in 1 .. Len(keys) : keys[i] = Some(nm)}
        FirstSeen(nm) == CHOOSE i \in NamedBy(nm) : \A j \in NamedBy(nm) : i <= j
        first  == [i \in 1 .. Len(ranked) |-> FirstSeen(ranked[i].name)]
    IN  /\ (primary = NULL) => (others = << >>)
        /\ {Some(ranked[i].name) : i \in 1 .. Len(ranked)}
              = {keys[i] : i \in 1 .. Len(keys)} \ {NULL}
        /\ \A i \in 1 .. Len(ranked) :
              ranked[i].count = Cardinality(NamedBy(ranked[i].name))
        /\ \A i, j \in 1 .. Len(ranked) :
              (i < j) =>
                 /\ ranked[i].name # ranked[j].name
                 /\ \/ ranked[i].count > ranked[j].count
                    \/ /\ ranked[i].count = ranked[j].count
                       /\ first[i] < first[j]
        /\ SumCounts(ranked) = Cardinality({i \in 1 .. Len(keys) : keys[i] # NULL})

\* C15: for each role the primary is the valid name most permits give, the first
\* seen among equals; the others are the remaining names by descending count with
\* the same tie-break; no name is listed twice, and the counts add up to the number
\* of permits that give a valid name for the role
C15_TeamRanking ==
    (pc = "team_logged") =>
        /\ RankedRight(permits, "contractor",
                       team_network.primary_gc, team_network.other_contractors)
        /\ RankedRight(permits, "architect",
                       team_network.primary_architect, team_network.other_architects)
        /\ RankedRight(permits, "engineer",
                       team_network.primary_engineer, team_network.other_engineers)

\* permits naming Bolt, ACME, " ACME ", Dyna, Dyna: ACME leads Dyna on first sight,
\* Bolt comes last though seen first
C15_Witness ==
    /\ pc = "team_logged"
    /\ Len(permits) = 5
    /\ permits[1].contractor = Some(<<"B", "o", "l", "t">>)
    /\ team_network.primary_gc
          = Some([name |-> <<"A", "C", "M", "E">>, license |-> NULL, count |-> 2])
    /\ team_network.other_contractors
          = << [name |-> <<"D", "y", "n", "a">>, license |-> NULL, count |-> 2],
               [name |-> <<"B", "o", "l", "t">>, license |-> NULL, count |-> 1] >>

\* a placeholder text: empty or blanks, "N/A" or "unknown" in any letter case, or
\* dashes only
IsPlaceholder(text) ==
    LET stripped == Strip(text)
    IN  \/ stripped = << >>
        \/ Upper(stripped) \in {<<"N", "/", "A">>, <<"U", "N", "K", "N", "O", "W", "N">>}
        \/ \A i \in 1 .. Len(stripped) : stripped[i] = "-"

NoPlaceholderIn(ranked) == \A i \in 1 .. Len(ranked) : ~IsPlaceholder(ranked[i].name)

NoPlaceholderAs(primary) == primary = NULL \/ ~IsPlaceholder(Get(primary).name)

\* C16: a placeholder name (empty, blanks, "N/A", "unknown", one or more dashes) is
\* never a primary or other_* entry of the team network and never a repeat player
C16_PlaceholdersRejected ==
    /\ (pc \in {"team_logged", "players_ranked"}) =>
          /\ NoPlaceholderAs(team_network.primary_gc)
          /\ NoPlaceholderAs(team_network.primary_architect)
          /\ NoPlaceholderAs(team_network.primary_engineer)
          /\ NoPlaceholderIn(team_network.other_contractors)
          /\ NoPlaceholderIn(team_network.other_architects)
          /\ NoPlaceholderIn(team_network.other_engineers)
    /\ (pc = "players_ranked") =>
          /\ NoPlaceholderIn(repeat_players.top_gcs)
          /\ NoPlaceholderIn(repeat_players.top_architects)
          /\ NoPlaceholderIn(repeat_players.top_engineers)

----------------------------------------------------------------------------
(* Data notes and the pipeline *)

\* the note is one of the notes of the list
Noted(notes, note) == \E i \in 1 .. Len(notes) : notes[i] = note

\* the conditions a data note stands for, each with its note
NoteConditions(r) ==
    { << ~r.redfin_ok, NoteRedfin >>,
      << ~r.ladbs_ok, NoteLadbs >>,
      << r.metrics.purchase_price = NULL, NotePurchasePrice >>,
      << r.metrics.land_sf = NULL, NoteLotSize >>,
      << r.permit_timeline.construction_completed_date = NULL, NoteCofo >>,
      << r.property_snapshot.building_sf = NULL, NoteBuildingSf >>,
      << r.metrics.purchase_price # NULL /\ r.cost_model.estimated_profit = NULL,
         NoteProfit >>,
      << /\ r.metrics.purchase_date # NULL
         /\ r.permit_timeline.plans_submitted_date # NULL
         /\ Get(r.metrics.purchase_date) > Get(r.permit_timeline.plans_submitted_date),
         NotePurchaseAfterPlans >> }

\* C17: the data notes of a report are empty exactly when none of the conditions
\* holds (listing source not ok, permit source not ok, purchase price unknown, lot
\* size missing, completion date missing, building area missing, purchase known but
\* profit not estimated, purchase after plans submitted), and every condition that
\* holds has its note in the list
C17_DataNotesComplete ==
    (pc = "returned") =>
        /\ (report.data_notes = << >>) <=> (\A c \in NoteConditions(report) : ~c[1])
        /\ \A c \in NoteConditions(report) : c[1] => Noted(report.data_notes, c[2])

\* a run on a full listing with a finished new house: nothing to note
C17_Witness ==
    /\ pc = "returned"
    /\ report.redfin_ok /\ report.ladbs_ok
    /\ report.metrics.purchase_price # NULL
    /\ report.cost_model.estimated_profit # NULL
    /\ report.permit_timeline.construction_completed_date = Some(2)
    /\ report.data_notes = << >>

\* the sections of a complete report
ReportSections ==
    {"address", "metrics", "permit_timeline", "project_durations", "permit_count",
     "permit_categories", "team_network", "property_snapshot", "construction_summary",
     "cost_model", "timeline_summary", "deal_fitness", "strategy_notes", "data_notes",
     "links", "redfin_ok", "ladbs_ok", "cslb_ok"}

FetchFailed(fetch) == fetch.kind \in {"raises", "invalid"}

\* C18: a listing fetch that raises or returns no record leaves a complete report
\* with redfin_ok false, an empty timeline, no purchase or exit figure and the
\* listing note, and the permit source is still queried; a permit fetch that raises
\* or returns no record leaves a complete report with ladbs_ok false, no permits,
\* scope level and complexity UNKNOWN and the permit note
C18_SourceFaultsContained ==
    /\ (pc = "returned" /\ FetchFailed(collaborators.redfin)) =>
          /\ ReportSections \subseteq DOMAIN report
          /\ \E i \in 1 .. Len(calls) : calls[i] = "get_ladbs_data"
          /\ ~report.redfin_ok
          /\ report.redfin.timeline = << >>
          /\ \A k \in {"purchase_price", "purchase_date", "exit_price", "exit_date",
                       "spread", "roi_pct", "hold_days", "spread_per_day"} :
                report.metrics[k] = NULL
          /\ Noted(report.data_notes, NoteRedfin)
    /\ (pc = "returned" /\ FetchFailed(collaborators.ladbs)) =>
          /\ ReportSections \subseteq DOMAIN report
          /\ ~report.ladbs_ok
          /\ report.permit_count = 0
          /\ report.permit_categories.scope_level = "UNKNOWN"
          /\ report.permit_categories.permit_complexity_score = "UNKNOWN"
          /\ Noted(report.data_notes, NoteLadbs)

\* the listing fetch raised and the permit fetch returned no record, and the run
\* went on to the narrative and the search log
C18_Witness ==
    /\ pc = "returned"
    /\ collaborators.redfin.kind = "raises"
    /\ collaborators.ladbs.kind = "invalid"
    /\ calls = << "get_redfin_data", "get_ladbs_data", "summarize_comp",
                  "append_to_search_log" >>
    /\ Len(search_log) = 1
    /\ ~report.redfin_ok /\ ~report.ladbs_ok

\* C19: with the same listing and permit fetches, whatever the license lookup
\* (found, not found, raises) and the narrative generator (returns, raises) do, the
\* run returns a report with the same metrics, permit categories, team network,
\* cost model, timeline summary, deal fitness and data notes; a collaborator that
\* raises leaves its field null
C19_OptionalCollaborators ==
    (pc = "returned") =>
        /\ \A co \in CslbOutcomes, no \in NarrativeOutcomes :
              LET other == PipelineReport([collaborators EXCEPT !.cslb = co,
                                                                !.narrative = no])
              IN  /\ ReportSections \subseteq DOMAIN other
                  /\ \A k \in {"metrics", "permit_categories", "team_network", "cost_model",
                               "timeline_summary", "deal_fitness", "data_notes"} :
                        other[k] = report[k]
        /\ (collaborators.narrative = "raises") => (report.strategy_notes = NULL)
        /\ (collaborators.cslb = "raises") => (report.cslb_contractor = NULL)
        /\ (collaborators.cslb = "raises"
               /\ \E i \in 1 .. Len(calls) : calls[i] = "lookup_cslb_license") =>
              (~report.cslb_ok /\ report.cslb_error # NULL)

\* the lookup was called for license 1234567 and raised, the narrative generator
\* raised, and the report still holds the purchase and its profit
C19_Witness ==
    /\ pc = "returned"
    /\ collaborators.cslb = "raises" /\ collaborators.narrative = "raises"
    /\ \E i \in 1 .. Len(calls) : calls[i] = "lookup_cslb_license"
    /\ report.cslb_contractor = NULL /\ ~report.cslb_ok /\ report.cslb_error # NULL
    /\ report.strategy_notes = NULL
    /\ report.metrics.purchase_price # NULL
    /\ report.cost_model.estimated_profit # NULL


----------------------------------------------------------------------------
(* Narrative *)

\* the narrative service gave nothing to parse: no key, a failed request, no text
Unavailable(reply) ==
    \/ ~reply.has_key
    \/ reply.outcome # "response"
    \/ reply.result_text = NULL \/ reply.result_text = Some("")

\* the text parsed into an object with a tactics list
ParsedAsExpected(reply) ==
    ~Unavailable(reply) /\ reply.json = "object" /\ reply.tactics = "list"

\* C20: when the narrative generator is unavailable or its text does not parse into
\* an object with a tactics list, summarize_comp returns the fallback built from the
\* derived fields, tagged "fallback"; a result tagged "api" comes only from a text
\* that parsed into that structure
C20_NarrativeFallback ==
    (pc = "summarized") =>
        /\ (~ParsedAsExpected(api)) =>
              /\ strategy_notes.source = "fallback"
              /\ strategy_notes = BuildFallbackStrategyNotes(CombinedData)
        /\ (strategy_notes.source = "api") => ParsedAsExpected(api)


----------------------------------------------------------------------------
(* Invariants of the derived report *)

\* C25: when the Event Selector returns both a purchase and an exit, both are sold
\* events and the purchase is dated no later than the exit; hence hold_days, when
\* known, is >= 0, and spread_per_day is known only when hold_days > 0
C25_PurchaseNotAfterExit ==
    (pc = "derived") =>
        /\ (purchase_event # NULL /\ exit_event # NULL) =>
              /\ IsSold(Get(purchase_event)) /\ IsSold(Get(exit_event))
              /\ DateKey(Get(purchase_event)) <= DateKey(Get(exit_event))
              /\ metrics.purchase_date = Get(purchase_event).date
              /\ metrics.exit_date = Get(exit_event).date
        /\ (metrics.hold_days # NULL) => Get(metrics.hold_days) >= 0
        /\ (metrics.spread_per_day # NULL) =>
              (metrics.hold_days # NULL /\ Get(metrics.hold_days) > 0)

\* two sales recorded on one day, listed later-first in the source: the purchase is
\* chosen, the hold is 0 days and there is no spread per day
C25_Witness ==
    /\ pc = "derived"
    /\ Len(redfin.timeline) = 2
    /\ purchase_event # NULL /\ exit_event # NULL
    /\ metrics.hold_days = Some(0)
    /\ metrics.spread # NULL
    /\ metrics.spread_per_day = NULL


\* the purchase the Event Selector gives for the listing and permits of report r
SelectedPurchase(r) ==
    PickPurchaseAndExit(r.redfin.timeline, r.permit_timeline.plans_submitted_date)[1]

\* C27: in a report whose selected purchase is absent, the ROI, velocity and hold
\* sub-scores are 0, the deal-fitness score is the permit-complexity sub-score alone
\* (5, 10, 15 or 25) and the grade is F, whatever the permits and the exit price;
\* the same holds for the report's metrics under each of the four complexity labels
C27_NoPurchaseGradesF ==
    (pc = "returned" /\ SelectedPurchase(report) = NULL) =>
        /\ report.deal_fitness.components.roi_score = 0
        /\ report.deal_fitness.components.mot_score = 0
        /\ report.deal_fitness.components.hold_score = 0
        /\ report.deal_fitness.score = report.deal_fitness.components.complexity_score
        /\ report.deal_fitness.score \in {5, 10, 15, 25}
        /\ report.deal_fitness.grade = "F"
        /\ \A label \in ComplexityLabels :
              LET scored == CalculateDealFitnessScore(
                                report.metrics,
                                [report.permit_categories
                                    EXCEPT !.permit_complexity_score = label])
              IN  /\ scored.score = ComplexityScore(label)
                  /\ scored.score \in {5, 10, 15, 25}
                  /\ scored.grade = "F"

\* a property sold once, with a known exit price and permits of low complexity: no
\* purchase, 25 points, grade F
C27_Witness ==
    /\ pc = "returned"
    /\ SelectedPurchase(report) = NULL
    /\ report.metrics.exit_price # NULL
    /\ report.permit_count > 0
    /\ report.deal_fitness.score = 25
    /\ report.deal_fitness.grade = "F"


\* the stages of report r with the given name
ReportStages(r, name) ==
    SelectSeq(r.timeline_summary.stages, LAMBDA st : st.name = name)

\* C26: in a run the date handed to the Event Selector is the plans-submitted
\* milestone; so in every report with purchase_date and plans_submitted_date both
\* known, purchase_date <= plans_submitted_date, days_to_submit is >= 0, the stage
\* purchase -> plans submitted is present, and no report carries the note that the
\* purchase is after the permit dates
C26_PurchaseBeforePlans ==
    (pc = "returned") =>
        LET m         == report.metrics
            submitted == report.permit_timeline.plans_submitted_date
        IN  /\ m = BuildHeadlineMetrics(report.redfin, submitted)
            /\ \A i \in 1 .. Len(report.data_notes) :
                  report.data_notes[i] # NotePurchaseAfterPlans
            /\ (m.purchase_date # NULL /\ submitted # NULL) =>
                  /\ Get(m.purchase_date) <= Get(submitted)
                  /\ report.project_durations.days_to_submit # NULL
                  /\ Get(report.project_durations.days_to_submit) >= 0
                  /\ Len(ReportStages(report, StagePurchaseToSubmit)) = 1
                  /\ ReportStages(report, StagePurchaseToSubmit)[1].days =
                         Get(submitted) - Get(m.purchase_date)

\* a property bought on the day the plans went in and sold later: the stage is
\* there with 0 days
C26_Witness ==
    /\ pc = "returned"
    /\ report.metrics.purchase_date # NULL
    /\ report.permit_timeline.plans_submitted_date = report.metrics.purchase_date
    /\ report.metrics.exit_date # report.metrics.purchase_date
    /\ Len(ReportStages(report, StagePurchaseToSubmit)) = 1


\* C23: the stages plans submitted -> approval and construction start -> completion
\* are in the stage list whenever both of their dates are known and the duration is
\* >= 0, with or without a purchase; the stage purchase -> plans submitted and
\* total_days are there only with a known purchase
C23_PermitOnlyStages ==
    (pc = "timeline_done") =>
        LET pt == permit_timeline
        IN  /\ (/\ pt.plans_submitted_date # NULL /\ pt.plans_approved_date # NULL
                /\ Get(pt.plans_approved_date) >= Get(pt.plans_submitted_date))
               => StagesNamed(StageSubmitToApproval) # {}
            /\ (/\ pt.construction_start_date # NULL
                /\ pt.construction_completed_date # NULL
                /\ Get(pt.construction_completed_date) >= Get(pt.construction_start_date))
               => StagesNamed(StageConstruction) # {}
            /\ (metrics.purchase_date = NULL) =>
                  /\ StagesNamed(StagePurchaseToSubmit) = {}
                  /\ timeline_summary.total_days = NULL


\* C29: when building_sf_before is absent or 0 and building_sf_after is positive,
\* the construction summary has existing_sf = 0, is_new_construction true and
\* added_sf = final_sf, and the cost model prices the whole final area at the
\* new-construction rate with remodel, addition and ADU costs 0, ADU flag or not
C29_MissingBeforeIsNewBuild ==
    (/\ pc = "costed"
     /\ ~Truthy(metrics.building_sf_before)
     /\ Truthy(metrics.building_sf_after)) =>
        /\ construction_summary.existing_sf = Some(0)
        /\ construction_summary.is_new_construction
        /\ construction_summary.final_sf = metrics.building_sf_after
        /\ construction_summary.added_sf = construction_summary.final_sf
        /\ cost_model.new_sf_full = Get(metrics.building_sf_after)
        /\ cost_model.cost_new_construction =
               Get(metrics.building_sf_after) * CostPerSfNewConstruction
        /\ cost_model.remodel_sf = 0 /\ cost_model.cost_remodel = 0
        /\ cost_model.addition_sf = 0 /\ cost_model.cost_addition = 0
        /\ cost_model.adu_sf = 0 /\ cost_model.cost_adu = 0

\* a listing of 1500 sf without a public-record area, with an ADU permit: 1500 sf at
\* the new-construction rate and no ADU cost
C29_Witness ==
    /\ pc = "costed"
    /\ metrics.building_sf_before = NULL
    /\ metrics.building_sf_after = Some(1500)
    /\ permit_categories.has_adu
    /\ construction_summary.is_new_construction
    /\ cost_model.cost_new_construction = 1500 * CostPerSfNewConstruction
    /\ cost_model.cost_adu = 0


\* permit p mentions an accessory dwelling unit
MentionsAdu(p) == AnyIn(KeywordsIn(p), AduKeywords)

\* permit p matches a supplement, demolition or trade keyword
OutsideBuilding(p) ==
    AnyIn(KeywordsIn(p), SupplementKeywords \cup DemoKeywords \cup MepKeywords)

\* C28: has_adu or has_new_structure implies building_count >= 1; a permit that
\* mentions an ADU but also matches a supplement, demolition or trade keyword sets
\* neither flag, so by itself it does not make the scope level HEAVY
C28_FlagsNeedBuildingPermit ==
    (pc = "categorized") =>
        /\ (permit_categories.has_adu \/ permit_categories.has_new_structure)
               => permit_categories.building_count >= 1
        /\ \A i \in 1 .. Len(permits) :
              (MentionsAdu(permits[i]) /\ OutsideBuilding(permits[i])) =>
                  LET alone == CategorizePermits(<< permits[i] >>)
                  IN  /\ ~alone.has_adu /\ ~alone.has_new_structure
                      /\ alone.building_count = 0
                      /\ alone.scope_level # "HEAVY"
        /\ (\A i \in 1 .. Len(permits) : OutsideBuilding(permits[i])) =>
              (~permit_categories.has_adu /\ ~permit_categories.has_new_structure)

\* a supplement that adds an ADU, followed by three electrical permits for the
\* ADU: no building permit, no ADU flag, and a MEDIUM scope from the three trades
C28_Witness ==
    /\ pc = "categorized"
    /\ Len(permits) = 4
    /\ \A i \in 1 .. Len(permits) : MentionsAdu(permits[i]) /\ OutsideBuilding(permits[i])
    /\ permit_categories.supplement_count = 1
    /\ permit_categories.mep_count = 3
    /\ permit_categories.building_count = 0
    /\ ~permit_categories.has_adu
    /\ permit_categories.scope_level = "MEDIUM"

----------------------------------------------------------------------------
(* The search log under concurrent requests *)

\* the threads inside a `with _search_log_lock:` block
InsideLock == { t \in LogThreads : threads[t].pc \in {"append", "save", "write", "copy", "rank", "release"} }

\* the run entries of a log: those written by this process
OwnEntries(log) == SelectSeq(log, LAMBDA e : e.timestamp # << 0, 0 >>)

\* the timestamps of the runs of thread t with the given outcome
RunStamps(t, outcome) ==
    { threads[t].runs[i].id : i \in { j \in 1 .. Len(threads[t].runs) : threads[t].runs[j].outcome = outcome } }

\* the timestamps of the appends that are between line 84 and the end of the block
PendingStamps ==
    { Get(threads[t].entry).timestamp :
        t \in { u \in LogThreads : threads[u].op = "append_to_search_log"
                                   /\ threads[u].pc \in {"save", "write", "release"} } }

\* the timestamps of the entries of a log
Stamps(log) == { log[i].timestamp : i \in 1 .. Len(log) }

\* C21: no lost updates. At most one thread is inside the locked block, and it is
\* the holder of the lock; the log in memory holds exactly one entry for every
\* append whose line 84 has run (completed or still persisting), whatever the
\* interleaving; an append whose write of the file succeeded leaves, at the end of
\* its block, a file equal to the log in memory, and so does the file after the
\* last completed write whenever no thread holds the lock.
C21_NoLostUpdates ==
    pc = "serving" =>
      /\ Cardinality(InsideLock) <= 1
      /\ \A t \in InsideLock : log_lock = Some(t)
      /\ LET done == UNION { RunStamps(t, "returned") : t \in LogThreads }
         IN  /\ Stamps(OwnEntries(search_log)) = done \cup PendingStamps
             /\ Len(OwnEntries(search_log)) = Cardinality(done \cup PendingStamps)
      /\ \A t \in LogThreads :
            (threads[t].op = "append_to_search_log" /\ threads[t].pc = "release"
                /\ threads[t].save_ok)
              => disk = [content |-> search_log, intact |-> TRUE]
      /\ (log_lock = NULL /\ last_save_ok)
              => disk = [content |-> search_log, intact |-> TRUE]

\* an append of one thread has written the file and is about to leave its block,
\* after an append of the other thread, while the other thread waits for the lock
\* with a further entry
C21_Witness ==
    /\ pc = "serving"
    /\ \E t \in LogThreads, u \in LogThreads :
          /\ t # u
          /\ threads[t].op = "append_to_search_log" /\ threads[t].pc = "release"
          /\ threads[t].save_ok
          /\ RunStamps(u, "returned") # {}
          /\ threads[u].op = "append_to_search_log" /\ threads[u].pc = "acquire"
          /\ Len(disk.content) >= 2

\* C22: snapshot reads. The list get_search_log returned, read at any later time,
\* holds the log as the last completed append left it when the call copied it
\* (never a log with an entry whose append-and-persist was still running), and an
\* append made since has not changed it; the rankings get_repeat_players returned
\* are those of one such log.
C22_SnapshotReads ==
    pc = "serving" =>
      \A t \in LogThreads :
          /\ threads[t].result # NULL
                => Observed(Get(threads[t].result), search_log) = threads[t].seen_log
          /\ threads[t].players # NULL
                => Get(threads[t].players) = GetRepeatPlayers(threads[t].seen_players)
          /\ threads[t].pc \in {"copy", "rank"} => search_log = committed

\* a list was returned and the log has grown since; rankings were computed from a
\* log with an entry while the other thread was waiting to append
C22_Witness ==
    /\ pc = "serving"
    /\ \E t \in LogThreads :
          /\ threads[t].result # NULL
          /\ Len(search_log) > Len(threads[t].seen_log)
    /\ \E t \in LogThreads :
          /\ threads[t].players # NULL
          /\ Len(threads[t].seen_players) >= 1

\* log is the beginning of longer, entry for entry
IsPrefixOf(log, longer) == Len(log) <= Len(longer) /\ SubSeq(longer, 1, Len(log)) = log

\* the number of entries of a log with the given timestamp
EntriesOf(log, stamp) == Len(SelectSeq(log, LAMBDA e : e.timestamp = stamp))

\* a step of the search log keeps the log it found as the beginning of the log it
\* leaves, and a run returns in a step that leaves the log alone
LogStepAppendOnly ==
    pc = "serving" =>
      /\ IsPrefixOf(search_log, search_log')
      /\ \A t \in LogThreads :
            Len(threads'[t].runs) > Len(threads[t].runs) => search_log' = search_log

\* what the runs so far have left in the log: one entry for a run that returned,
\* whether or not the file was written, and none for a run that raised
RunsLeftTheirEntries ==
    pc = "serving" =>
      \A t \in LogThreads : \A i \in 1 .. Len(threads[t].runs) :
          LET run == threads[t].runs[i]
          IN  /\ run.outcome = "returned" => EntriesOf(search_log, run.id) = 1
              /\ run.outcome = "raised" => EntriesOf(search_log, run.id) = 0
              /\ ~run.saved /\ run.outcome # "raised"
                    => run.outcome = "returned" /\ EntriesOf(search_log, run.id) = 1

\* C30: the search log is append-only. Every step of the runs and reads of one
\* process leaves a log that begins with the log before the step; a run that
\* returned has appended exactly one entry, between its last computation and its
\* return; a run that raised has appended none; a run whose write of the file
\* failed has returned all the same and its entry is in the log.
C30_AppendOnlyLog == [][LogStepAppendOnly]_vars /\ []RunsLeftTheirEntries

\* a run returned although its write of the file failed, another run raised, and
\* the log holds the entries of two runs
C30_Witness ==
    /\ pc = "serving"
    /\ \E t \in LogThreads : \E i \in 1 .. Len(threads[t].runs) :
          threads[t].runs[i].outcome = "returned" /\ ~threads[t].runs[i].saved
    /\ \E t \in LogThreads : RunStamps(t, "raised") # {}
    /\ Len(OwnEntries(search_log)) >= 2

----------------------------------------------------------------------------
(* A batch of runs *)

\* the record at position i of the list is the one the code makes for URL i: the
\* placeholder with null figures when the run raised, the report of the run
\* otherwise
ResultFitsUrl(i) ==
    LET u == url_list[i]
        r == results[i]
    IN  /\ r.url = u.url
        /\ IF u.raises # NULL
           THEN /\ r = ErrorPlaceholder(u.url)
                /\ r.address = "Error processing property"
                /\ \A f \in {"purchase_price", "purchase_date", "exit_price", "exit_date",
                             "spread", "roi_pct", "hold_days"} : r.metrics[f] = NULL
           ELSE r = UrlReport(u)

\* the list so far answers the URLs so far, in order, and no exception has left
\* the loop
BatchIsolated ==
    pc \in {"multiple_loop", "returned", "raised"} =>
      /\ pc # "raised" /\ escaped = NULL
      /\ Len(results) <= Len(url_list)
      /\ \A i \in 1 .. Len(results) : ResultFitsUrl(i)
      /\ pc = "returned" => Len(results) = Len(url_list)

\* a turn of the loop adds the record of the next URL and goes on to the URL after
\* it; the list is returned only when every URL has its record
BatchStepGoesOn ==
    pc = "multiple_loop" =>
      /\ Len(results) < Len(url_list)
            => /\ Len(results') = Len(results) + 1
               /\ SubSeq(results', 1, Len(results)) = results
               /\ pc' = "multiple_loop"
      /\ pc' = "returned" => results' = results /\ Len(results) = Len(url_list)

\* C24: per-URL error isolation. For every list of URLs, the list run_multiple
\* builds and returns has one record per URL in the order of the URLs; a URL whose
\* run raised has the error placeholder with null purchase, exit, spread, ROI and
\* hold figures; after it the loop goes on, and the URLs after it have their
\* records all the same; no exception leaves run_multiple.
C24_ErrorIsolation == []BatchIsolated /\ [][BatchStepGoesOn]_vars

\* a batch of three returned: the first URL with a report, the second with the
\* placeholder because its run raised, the third with a report again
C24_Witness ==
    /\ pc = "returned"
    /\ Len(url_list) = 3 /\ Len(results) = 3
    /\ url_list[1].raises = NULL /\ url_list[2].raises # NULL /\ url_list[3].raises = NULL
    /\ results[2] = ErrorPlaceholder(url_list[2].url)
    /\ results[3] = UrlReport(url_list[3])
    /\ Len(search_log) = 2

====
